---- MODULE Spec2Model ----
(***************************************************************************)
(* A model of httpver: the batch scheduler (runChecksMulti and             *)
(* CheckHTTPVersionsMulti), the per-target check (runChecks) and the web   *)
(* front end's result cache (resultCache, handleScan).                     *)
(*                                                                         *)
(* Go slices are modelled as sequences, so index i of the source is index  *)
(* i + 1 here.                                                             *)
(***************************************************************************)
EXTENDS Integers, Sequences, FiniteSets, TLC

VARIABLES
    \* ---- batch scheduler (internal/httpver/check.go, 487-600) ----
    mode,           \* "ordered" (runChecksMulti) or "stream" (CheckHTTPVersionsMulti)
    targets,        \* the targets slice
    numCPU,         \* runtime.NumCPU()
    mainpc,         \* position of the calling goroutine
    feedi,          \* the feed loop's next index
    jobsClosed,     \* close(jobs) has run
    workers,        \* worker goroutine -> [pc, idx, res]
    results,        \* ordered mode: the results slice
    resultsClosed,  \* stream mode: close(results) has run
    printed,        \* stream mode: the CheckResults printed so far, in order
    taken,          \* history: how often each index was received from jobs
    inverted,       \* history: some check completed before one of a lower index
    \* ---- one target's check (internal/httpver/check.go, 166-459) ----
    ctarget,        \* runChecks' target argument
    coverride,      \* runChecks' overridePort argument
    cpc,            \* position of runChecks: "start", "probing", "returned"
    probes,         \* probe goroutine 1..4 -> "run", "written", "done"
    cresults,       \* the local results slice of the four probes
    hasH2,
    hasH3,
    tlsProto,
    alpn,
    unresolved,
    res,            \* the CheckResult being built and returned
    overtaken,      \* history: some probe finished before one of a lower index
    \* ---- web front end and its cache (cmd/http1/web.go) ----
    clock,          \* time.Now(), in hours
    data,           \* resultCache.data: key -> cacheEntry
    recentKeys,     \* resultCache.recentKeys
    reqs,           \* handleScan invocation -> its position and locals
    probeRuns,      \* history: scans run so far (each runs its targets' probes)
    nreq,           \* history: requests begun so far
    \* ---- one call of a function without side effects ----
    call,           \* the function called and its arguments
    ret,            \* what it returned, once it has
    \* ---- time inside one target's check ----
    elapsed,        \* whole seconds since the probes' requests were sent
    \* ---- the probe goroutines of one target's check, statement by statement ----
    plocal,         \* probe -> its local VersionResult (v10, v11, v2, v3)
    mu,             \* the probe holding unresolvedMu, 0 when it is free
    \* ---- the cache's lock, for the runs that follow it statement by statement ----
    cmu,            \* resultCache.mu: [readers, writer], writer 0 when there is none
    \* ---- the results slices of the web front end, as references ----
    slices,         \* backing array -> the CheckResults in it, in order of allocation
    reqSlice,       \* handleScan invocation -> the array its `results` refers to, 0 for nil
    entrySlice      \* key -> the array the entry's Results refers to

schedVars == <<mode, targets, numCPU, mainpc, feedi, jobsClosed, workers,
               results, resultsClosed, printed, taken, inverted>>

checkVars == <<ctarget, coverride, cpc, probes, cresults, hasH2, hasH3, tlsProto,
               alpn, unresolved, res, overtaken>>

cacheVars == <<clock, data, recentKeys, reqs, probeRuns, nreq>>

callVars == <<call, ret>>

timeVars == <<elapsed>>

raceVars == <<plocal, mu>>

lockVars == <<cmu>>

sliceVars == <<slices, reqSlice, entrySlice>>

vars == <<schedVars, checkVars, cacheVars, callVars, timeVars, raceVars, lockVars, sliceVars>>

\* ------------------------------------------------------------------ bounds

\* Longest targets slice handed to the scheduler.
MaxTargets == 5

\* Web requests begun in one run.
MaxRequests == 2

\* Clock ticks in one run.
MaxTicks == 3


\* ------------------------------------------------------------ small helpers

Range(s) == {s[i] : i \in DOMAIN s}

\* ================================================================== strings
\* A Go string is a sequence of one-character strings: "a.b" is <<"a", ".", "b">>.

Digits == {"0", "1", "2", "3", "4", "5", "6", "7", "8", "9"}

LowerLetters == <<"a", "b", "c", "d", "e", "f", "g", "h", "i", "j", "k", "l", "m",
                  "n", "o", "p", "q", "r", "s", "t", "u", "v", "w", "x", "y", "z">>

UpperLetters == <<"A", "B", "C", "D", "E", "F", "G", "H", "I", "J", "K", "L", "M",
                  "N", "O", "P", "Q", "R", "S", "T", "U", "V", "W", "X", "Y", "Z">>

Letters == Range(LowerLetters) \cup Range(UpperLetters)

HexDigits == Digits \cup {"a", "b", "c", "d", "e", "f", "A", "B", "C", "D", "E", "F"}

\* unicode.ToLower on one ASCII character.
ToLowerChar(c) ==
    IF c \in Range(UpperLetters)
    THEN LowerLetters[CHOOSE i \in 1..26 : UpperLetters[i] = c]
    ELSE c

\* strings.ToLower
ToLower(s) == [i \in 1..Len(s) |-> ToLowerChar(s[i])]

\* strings.EqualFold, on ASCII
EqualFoldExact(s, t) == s = t

EqualFold(s, t) == ToLower(s) = ToLower(t)

\* strings.HasPrefix / strings.HasSuffix
HasPrefix(s, p) == Len(s) >= Len(p) /\ SubSeq(s, 1, Len(p)) = p

HasSuffix(s, p) == Len(s) >= Len(p) /\ SubSeq(s, Len(s) - Len(p) + 1, Len(s)) = p

\* s[from:] with a 1-based from.
Tail0(s, from) == SubSeq(s, from, Len(s))

\* strings.IndexByte and strings.LastIndexByte, 1-based, 0 when absent.
IndexOf(s, c) ==
    IF \E i \in 1..Len(s) : s[i] = c
    THEN CHOOSE i \in 1..Len(s) : s[i] = c /\ \A j \in 1..(i - 1) : s[j] # c
    ELSE 0

LastIndexOf(s, c) ==
    IF \E i \in 1..Len(s) : s[i] = c
    THEN CHOOSE i \in 1..Len(s) : s[i] = c /\ \A j \in (i + 1)..Len(s) : s[j] # c
    ELSE 0

\* strings.Split(s, sep) for a one-character sep: always at least one field.
RECURSIVE Split(_, _)
Split(s, sep) ==
    LET i == IndexOf(s, sep)
    IN  IF i = 0 THEN <<s>>
        ELSE <<SubSeq(s, 1, i - 1)>> \o Split(Tail0(s, i + 1), sep)

\* ======================================================== target validation

SchemeHTTP == <<"h", "t", "t", "p", ":", "/", "/">>

SchemeHTTPS == <<"h", "t", "t", "p", "s", ":", "/", "/">>

LocalhostName == <<"l", "o", "c", "a", "l", "h", "o", "s", "t">>

\* net/url: the characters a host may hold unescaped (shouldEscape, encodeHost).
URLHostChars ==
    Letters \cup Digits \cup {"-", "_", ".", "~", "!", "$", "&", "'", "(", ")", "*",
                              "+", ",", ";", "=", ":", "[", "]", "<", ">", "\""}

\* net/url validOptionalPort: "" or ":" followed by digits only.
validOptionalPort(p) ==
    \/ p = <<>>
    \/ p[1] = ":" /\ \A i \in 2..Len(p) : p[i] \in Digits

\* net/url splitHostPort: <<host, port>> of a URL's Host.
splitHostPort(hostPort) ==
    LET colon == LastIndexOf(hostPort, ":")
        cut   == colon # 0 /\ validOptionalPort(Tail0(hostPort, colon))
        h     == IF cut THEN SubSeq(hostPort, 1, colon - 1) ELSE hostPort
        p     == IF cut THEN Tail0(hostPort, colon + 1) ELSE <<>>
        bare  == IF HasPrefix(h, <<"[">>) /\ HasSuffix(h, <<"]">>)
                 THEN SubSeq(h, 2, Len(h) - 1) ELSE h
    IN  <<bare, p>>

\* net/url Parse for the inputs normalizeURL hands it (they start with http://
\* or https://, and hold no '?', '#', '@' or '%'): the authority runs to
\* the first '/', and the host in it must hold only host characters and a
\* valid optional port.
urlParse(raw) ==
    LET isHTTP == HasPrefix(raw, SchemeHTTP)
        rest   == Tail0(raw, IF isHTTP THEN 8 ELSE 9)
        slash  == IndexOf(rest, "/")
        auth   == IF slash = 0 THEN rest ELSE SubSeq(rest, 1, slash - 1)
        path   == IF slash = 0 THEN <<>> ELSE Tail0(rest, slash)
        close  == IndexOf(auth, "]")
        colon  == LastIndexOf(auth, ":")
        bad    == \/ \E i \in 1..Len(auth) : auth[i] \notin URLHostChars
                  \/ IF HasPrefix(auth, <<"[">>)
                     THEN close = 0 \/ ~validOptionalPort(Tail0(auth, close + 1))
                     ELSE colon # 0 /\ ~validOptionalPort(Tail0(auth, colon))
                  \/ \E i \in 1..Len(path) : path[i] \notin (URLHostChars \cup {"/"})
    IN  [err |-> bad,
         Scheme |-> IF isHTTP THEN "http" ELSE "https",
         Host |-> auth,
         Path |-> path]

\* (*URL).Hostname and (*URL).Port
urlHostname(u) == splitHostPort(u.Host)[1]

urlPort(u) == splitHostPort(u.Host)[2]

\* (*URL).String for a URL with scheme, host and path only.
urlString(u) ==
    (IF u.Scheme = "http" THEN SchemeHTTP ELSE SchemeHTTPS) \o u.Host \o u.Path

\* isValidHostname, check.go:69-103
hostnameMaxLen == 253

labelMaxLen == 63

isValidHostnameAnyHyphen(host0) ==
    IF host0 = <<>> \/ Len(host0) > hostnameMaxLen THEN FALSE
    ELSE LET host   == IF HasSuffix(host0, <<".">>)
                       THEN SubSeq(host0, 1, Len(host0) - 1) ELSE host0
             labels == Split(host, ".")
         IN  \A k \in 1..Len(labels) :
                LET label == labels[k]
                IN  /\ ~(label = <<>> \/ Len(label) > labelMaxLen)
                    /\ \A i \in 1..Len(label) :
                        label[i] \in (Letters \cup Digits \cup {"-"})

isValidHostname(host0) ==
    IF host0 = <<>> \/ Len(host0) > hostnameMaxLen THEN FALSE
    ELSE LET host   == IF HasSuffix(host0, <<".">>)
                       THEN SubSeq(host0, 1, Len(host0) - 1) ELSE host0
             labels == Split(host, ".")
         IN  \A k \in 1..Len(labels) :
                LET label == labels[k]
                IN  /\ ~(label = <<>> \/ Len(label) > labelMaxLen)
                    /\ ~(label[1] = "-" \/ label[Len(label)] = "-")
                    /\ \A i \in 1..Len(label) :
                        label[i] \in (Letters \cup Digits \cup {"-"})

\* A decimal field of a dotted IPv4 address: 1..3 digits, no leading zero
\* unless it is "0", at most 255.
RECURSIVE DecValue(_)
DecValue(f) ==
    IF f = <<>> THEN 0
    ELSE 10 * DecValue(SubSeq(f, 1, Len(f) - 1))
         + (CHOOSE d \in 0..9 : <<"0", "1", "2", "3", "4", "5", "6", "7", "8", "9">>[d + 1] = f[Len(f)])

isIPv4(host) ==
    LET fields == Split(host, ".")
    IN  /\ Len(fields) = 4
        /\ \A k \in 1..4 :
            /\ Len(fields[k]) \in 1..3
            /\ \A i \in 1..Len(fields[k]) : fields[k][i] \in Digits
            /\ (Len(fields[k]) > 1 => fields[k][1] # "0")
            /\ DecValue(fields[k]) <= 255

\* An IPv6 address in hexadecimal groups: eight groups of 1..4 hex digits, or
\* fewer with exactly one "::" standing for the missing ones.
isIPv6(host) ==
    LET groups == Split(host, ":")
        n      == Len(groups)
        empty  == {k \in 1..n : groups[k] = <<>>}
        okHex  == \A k \in 1..n : /\ Len(groups[k]) <= 4
                                  /\ \A i \in 1..Len(groups[k]) : groups[k][i] \in HexDigits
        \* "::" shows as one empty group inside, two at an end, three for "::".
        inner  == {k \in empty : 1 < k /\ k < n}
    IN  /\ n >= 2 /\ okHex
        /\ \/ empty = {} /\ n = 8
           \/ /\ Cardinality(inner) = 1 /\ n <= 9
              /\ (1 \in empty => inner = {2})
              /\ (n \in empty => inner = {n - 1})
              /\ Cardinality(empty \ inner) =
                   (IF 1 \in empty THEN 1 ELSE 0) + (IF n \in empty THEN 1 ELSE 0)
              /\ n - Cardinality(empty) <= 7

\* net.ParseIP(host) != nil
parseIP(host) == isIPv4(host) \/ isIPv6(host)

\* normalizeURL, check.go:29-64: [err, url]; url is meaningful when err = "".
normalizeURLAllowingLocalhost(raw0) ==
    LET raw == IF ~HasPrefix(raw0, SchemeHTTP) /\ ~HasPrefix(raw0, SchemeHTTPS)
               THEN SchemeHTTPS \o raw0 ELSE raw0
        u    == urlParse(raw)
        host == urlHostname(u)
    IN  IF u.err THEN [err |-> "parse", url |-> <<>>]
        ELSE IF u.Host = <<>> THEN [err |-> "missing host in URL", url |-> <<>>]
        ELSE IF host = <<>> THEN [err |-> "missing host in URL", url |-> <<>>]
        ELSE IF ~parseIP(host) /\ ~isValidHostname(host)
             THEN [err |-> "invalid domain name in URL", url |-> <<>>]
        ELSE [err |-> "", url |-> urlString(u)]

normalizeURL(raw0) ==
    LET raw == IF ~HasPrefix(raw0, SchemeHTTP) /\ ~HasPrefix(raw0, SchemeHTTPS)
               THEN SchemeHTTPS \o raw0 ELSE raw0
        u    == urlParse(raw)
        host == urlHostname(u)
    IN  IF u.err THEN [err |-> "parse", url |-> <<>>]
        ELSE IF u.Host = <<>> THEN [err |-> "missing host in URL", url |-> <<>>]
        ELSE IF host = <<>> THEN [err |-> "missing host in URL", url |-> <<>>]
        ELSE IF EqualFold(host, LocalhostName)
             THEN [err |-> "localhost is not allowed as a scan target", url |-> <<>>]
        ELSE IF ~parseIP(host) /\ ~isValidHostname(host)
             THEN [err |-> "invalid domain name in URL", url |-> <<>>]
        ELSE [err |-> "", url |-> urlString(u)]

\* ============================================================ one target
\* runChecks, check.go:166-459.

\* net.SplitHostPort: [err, host, port].
netSplitHostPort(hp) ==
    LET i     == LastIndexOf(hp, ":")
        close == IndexOf(hp, "]")
        brack == HasPrefix(hp, <<"[">>)
        host  == IF brack THEN SubSeq(hp, 2, close - 1) ELSE SubSeq(hp, 1, i - 1)
        rest  == IF brack THEN Tail0(hp, close + 1) ELSE Tail0(hp, i)
        bad   == \/ i = 0
                 \/ brack /\ (close = 0 \/ close + 1 # i)
                 \/ ~brack /\ IndexOf(host, ":") # 0
                 \/ \E k \in 1..Len(host) : host[k] \in {"[", "]"}
                 \/ \E k \in 2..Len(rest) : rest[k] \in {"[", "]"}
    IN  IF bad THEN [err |-> TRUE, host |-> <<>>, port |-> <<>>]
        ELSE [err |-> FALSE, host |-> host, port |-> Tail0(hp, i + 1)]

\* net.JoinHostPort
netJoinHostPort(host, port) ==
    IF IndexOf(host, ":") # 0
    THEN <<"[">> \o host \o <<"]", ":">> \o port
    ELSE host \o <<":">> \o port

Port80 == <<"8", "0">>

Port443 == <<"4", "4", "3">>

\* Lines 195-208: explicit override > port in the URL > scheme default.
resolvePortURLFirst(u, overridePort) ==
    LET p1 == IF urlPort(u) = <<>> THEN overridePort ELSE urlPort(u)
    IN  IF p1 = <<>> THEN (IF u.Scheme = "http" THEN Port80 ELSE Port443) ELSE p1

resolvePort(u, overridePort) ==
    LET p1 == IF overridePort = <<>> THEN urlPort(u) ELSE overridePort
    IN  IF p1 = <<>> THEN (IF u.Scheme = "http" THEN Port80 ELSE Port443) ELSE p1

\* Lines 211-219: the URL with the explicit port.
urlWithPort(u, port) ==
    LET sp   == netSplitHostPort(u.Host)
        host == IF sp.err THEN u.Host ELSE sp.host
    IN  urlString(IF host # <<>> THEN [u EXCEPT !.Host = netJoinHostPort(host, port)] ELSE u)

ZeroVersionResult ==
    [Version |-> "", Supported |-> FALSE, Detail |-> "", Evidence |-> "", Error |-> FALSE]

ZeroResult ==
    [Target |-> <<>>, URL |-> <<>>, Port |-> <<>>, Results |-> <<>>, Score |-> 0,
     Grade |-> "", ALPN |-> "", TLSVersion |-> "", Unresolved |-> FALSE]

\* What the network can answer to a probe.
\*   [kind |-> "build"]               http.NewRequest failed
\*   [kind |-> "err", err |-> e]      the request failed with error e
\*   [kind |-> "resp", proto, tls, alpn]   a response arrived
ErrRefused == "connect: connection refused"

ErrNoSuchHost == "lookup: no such host"

ErrTimeout == "context deadline exceeded"

ProbeErrors == {ErrRefused, ErrNoSuchHost, ErrTimeout}

Fail(e) == [kind |-> "err", err |-> e]

Resp(proto, tls, a) == [kind |-> "resp", proto |-> proto, tls |-> tls, alpn |-> a]

BuildFail == [kind |-> "build"]

\* cs.Version of the HTTP/2.0 probe's response: "none" when resp.TLS is nil,
\* "other" for a version outside the switch.
TLSVersions == {"none", "1.3", "1.2", "1.1", "1.0", "other"}

Outcomes10 ==
    {BuildFail} \cup {Fail(e) : e \in ProbeErrors}
    \cup {Resp(p, "none", "") : p \in {"HTTP/1.0", "HTTP/1.1", "HTTP/2.0"}}

Outcomes11 ==
    {BuildFail} \cup {Fail(e) : e \in {ErrNoSuchHost, ErrTimeout}}
    \cup {Resp(p, "none", "") : p \in {"HTTP/1.0", "HTTP/1.1"}}

\* The request failed with error e after a TLS handshake that agreed on
\* version v and ALPN protocol a.
FailAfterTLS(e, v, a) == [kind |-> "err", err |-> e, tls |-> v, alpn |-> a]

Outcomes2 ==
    {Fail(e) : e \in {ErrNoSuchHost, ErrTimeout}}
    \cup {FailAfterTLS(ErrTimeout, "1.3", "h2"), FailAfterTLS(ErrTimeout, "1.2", "http/1.1")}
    \cup {Resp("HTTP/2.0", v, "h2") : v \in TLSVersions}
    \cup {Resp("HTTP/1.1", v, a) : v \in TLSVersions \ {"none"}, a \in {"http/1.1", ""}}
    \cup {Resp("HTTP/1.1", "none", "")}

Outcomes3 ==
    {BuildFail} \cup {Fail(e) : e \in {ErrNoSuchHost, ErrTimeout}}
    \cup {Resp(p, "1.3", "h3") : p \in {"HTTP/3.0", "HTTP/2.0"}}

ProtoMajorOfHTTP10Only(proto) == IF proto = "HTTP/1.0" THEN 1 ELSE 0

ProtoMajor(proto) ==
    CASE proto = "HTTP/1.0" -> 1 [] proto = "HTTP/1.1" -> 1
      [] proto = "HTTP/2.0" -> 2 [] proto = "HTTP/3.0" -> 3

ProtoMinor(proto) == IF proto = "HTTP/1.1" THEN 1 ELSE 0

\* errors.As(err, &dnsErr) && dnsErr.IsNotFound   (markIfUnresolved, 284-291)
isNotFoundAnyError(e) == TRUE

isNotFound(e) == e = ErrNoSuchHost

\* formatHTTP10Error, check.go:109-121
formatHTTP10ErrorGeneric(e) == "not supported (or probe failed): " \o e

formatHTTP10Error(e) ==
    IF e = ErrRefused THEN "not supported (good) - TCP connection refused"
    ELSE "not supported (or probe failed): " \o e

\* Lines 297-332: the HTTP/1.0 VersionResult for an outcome.
classify10RefusedSupported(o) ==
    LET v10 == [ZeroVersionResult EXCEPT !.Version = "HTTP/1.0"]
    IN  CASE o.kind = "build" ->
               [v10 EXCEPT !.Error = TRUE, !.Detail = "request build failed",
                           !.Evidence = "build"]
          [] o.kind = "err" ->
               [v10 EXCEPT !.Error = TRUE, !.Evidence = o.err,
                           !.Supported = (o.err = ErrRefused),
                           !.Detail = formatHTTP10Error(o.err)]
          [] o.kind = "resp" ->
               IF ProtoMajor(o.proto) = 1
               THEN [v10 EXCEPT !.Supported = TRUE,
                                !.Detail = IF ProtoMinor(o.proto) = 0 THEN "supported"
                                           ELSE "server upgraded HTTP/1.0 request to "
                                                \o o.proto \o " (good)"]
               ELSE [v10 EXCEPT !.Detail = "server replied with " \o o.proto]

classify10(o) ==
    LET v10 == [ZeroVersionResult EXCEPT !.Version = "HTTP/1.0"]
    IN  CASE o.kind = "build" ->
               [v10 EXCEPT !.Error = TRUE, !.Detail = "request build failed",
                           !.Evidence = "build"]
          [] o.kind = "err" ->
               [v10 EXCEPT !.Error = TRUE, !.Evidence = o.err,
                           !.Detail = formatHTTP10Error(o.err)]
          [] o.kind = "resp" ->
               IF ProtoMajor(o.proto) = 1
               THEN [v10 EXCEPT !.Supported = TRUE,
                                !.Detail = IF ProtoMinor(o.proto) = 0 THEN "supported"
                                           ELSE "server upgraded HTTP/1.0 request to "
                                                \o o.proto \o " (good)"]
               ELSE [v10 EXCEPT !.Detail = "server replied with " \o o.proto]

\* Lines 338-365: the HTTP/1.1 VersionResult.
classify11(o) ==
    LET v11 == [ZeroVersionResult EXCEPT !.Version = "HTTP/1.1"]
    IN  CASE o.kind = "build" ->
               [v11 EXCEPT !.Error = TRUE, !.Detail = "request build failed",
                           !.Evidence = "build"]
          [] o.kind = "err" ->
               [v11 EXCEPT !.Error = TRUE, !.Evidence = o.err,
                           !.Detail = "not supported (or probe failed): " \o o.err]
          [] o.kind = "resp" ->
               IF ProtoMajor(o.proto) = 1 /\ ProtoMinor(o.proto) = 1
               THEN [v11 EXCEPT !.Supported = TRUE, !.Detail = "supported"]
               ELSE [v11 EXCEPT !.Detail = "server replied with " \o o.proto]

\* Lines 371-404: the HTTP/2.0 VersionResult.
classify2AnyResponse(o) ==
    LET v2 == [ZeroVersionResult EXCEPT !.Version = "HTTP/2.0"]
    IN  CASE o.kind = "err" ->
               [v2 EXCEPT !.Error = TRUE, !.Evidence = o.err,
                          !.Detail = "not supported (or probe failed): " \o o.err]
          [] o.kind = "resp" ->
               [v2 EXCEPT !.Supported = TRUE, !.Detail = "supported"]

classify2(o) ==
    LET v2 == [ZeroVersionResult EXCEPT !.Version = "HTTP/2.0"]
    IN  CASE o.kind = "err" ->
               [v2 EXCEPT !.Error = TRUE, !.Evidence = o.err,
                          !.Detail = "not supported (or probe failed): " \o o.err]
          [] o.kind = "resp" ->
               IF ProtoMajor(o.proto) = 2
               THEN [v2 EXCEPT !.Supported = TRUE, !.Detail = "supported"]
               ELSE [v2 EXCEPT !.Detail = "server replied with " \o o.proto]

\* Lines 382-393: the switch on cs.Version.
tlsName(v) ==
    CASE v = "1.3" -> "TLS 1.3" [] v = "1.2" -> "TLS 1.2" [] v = "1.1" -> "TLS 1.1"
      [] v = "1.0" -> "TLS 1.0" [] OTHER -> ""

\* Lines 410-441: the HTTP/3.0 VersionResult.
classify3FailIsError(o) ==
    LET v3 == [ZeroVersionResult EXCEPT !.Version = "HTTP/3.0"]
    IN  CASE o.kind = "build" ->
               [v3 EXCEPT !.Error = TRUE, !.Detail = "request build failed",
                          !.Evidence = "build"]
          [] o.kind = "err" ->
               [v3 EXCEPT !.Error = TRUE, !.Evidence = o.err,
                          !.Detail = "not supported (or probe failed): " \o o.err]
          [] o.kind = "resp" ->
               IF ProtoMajor(o.proto) = 3
               THEN [v3 EXCEPT !.Supported = TRUE, !.Detail = "supported"]
               ELSE [v3 EXCEPT !.Detail = "server replied with " \o o.proto]

classify3(o) ==
    LET v3 == [ZeroVersionResult EXCEPT !.Version = "HTTP/3.0"]
    IN  CASE o.kind = "build" ->
               [v3 EXCEPT !.Error = TRUE, !.Detail = "request build failed",
                          !.Evidence = "build"]
          [] o.kind = "err" ->
               [v3 EXCEPT !.Evidence = o.err,
                          !.Detail = "not supported - enable HTTP/3 to offer a more secure option."]
          [] o.kind = "resp" ->
               IF ProtoMajor(o.proto) = 3
               THEN [v3 EXCEPT !.Supported = TRUE, !.Detail = "supported"]
               ELSE [v3 EXCEPT !.Detail = "server replied with " \o o.proto]

\* computeMinimalGrade(hasH3, hasH2, tlsProto): <<score, grade>>. The function
\* is called at check.go:453; its body is the grading table.
computeMinimalGradeNoTLS(h3, h2, tls) ==
    IF h3 THEN <<95, "A">>
    ELSE IF h2 THEN <<90, "B">>
    ELSE <<40, "F">>

computeMinimalGrade(h3, h2, tls) ==
    IF h3 THEN <<95, "A">>
    ELSE IF h2 /\ tls = "TLS 1.3" THEN <<90, "B">>
    ELSE IF h2 THEN <<80, "C">>
    ELSE <<40, "F">>

\* The sentinel of lines 174-179 and 186-191.
errorSentinel(detail) ==
    [Version |-> "error", Supported |-> FALSE, Detail |-> detail, Evidence |-> "",
     Error |-> TRUE]

\* The targets and override ports runChecks is tried on.
CheckTargets ==
    { <<"a", ".", "c", "o">>,
      <<"h", "t", "t", "p", ":", "/", "/", "A", ".", "c", "o", ":", "8", "1", "/", "x">>,
      <<"L", "o", "c", "a", "l", "h", "o", "s", "t">>,
      <<"b", " ", "c">>,
      <<"b", "\"", ">", "A">>,
      <<>> }

CheckOverrides == { <<>>, <<"8", "2">> }

\* No probe's time is measured.
IdleTime == elapsed = 0

\* No probe goroutine is followed statement by statement.
IdleRace == plocal = <<>> /\ mu = 0

\* The zero sync.RWMutex: no reader, no writer.
FreeLock == [readers |-> {}, writer |-> 0]

\* The cache's lock is not followed: every call that takes it is one step.
IdleLock == cmu = FreeLock

\* No results slice is followed as a reference.
IdleSlice == slices = <<>> /\ reqSlice = <<>> /\ entrySlice = <<>>

\* No function call is under way.
NoCall == [fn |-> "none"]

IdleCall == call = NoCall /\ ret = NoCall

\* The web front end at rest.
IdleCache ==
    /\ clock = 0 /\ data = <<>> /\ recentKeys = <<>> /\ reqs = <<>>
    /\ probeRuns = 0 /\ nreq = 0

IdleSched ==
    /\ mode = "none" /\ targets = <<>> /\ numCPU = 0 /\ mainpc = "idle" /\ feedi = 0
    /\ jobsClosed = FALSE /\ workers = <<>> /\ results = <<>> /\ resultsClosed = FALSE
    /\ printed = <<>> /\ taken = <<>> /\ inverted = FALSE

InitCheck ==
    /\ IdleTime
    /\ IdleRace
    /\ IdleLock
    /\ IdleSlice
    /\ IdleSched
    /\ IdleCache
    /\ IdleCall
    /\ ctarget \in CheckTargets
    /\ coverride \in CheckOverrides
    /\ cpc = "start"
    /\ probes = <<>>
    /\ cresults = <<>>
    /\ hasH2 = FALSE /\ hasH3 = FALSE /\ tlsProto = "" /\ alpn = ""
    /\ unresolved = FALSE
    /\ res = ZeroResult
    /\ overtaken = FALSE

\* Lines 166-292: validate, resolve the port, and start the four probes; a
\* target that fails validation returns at once with the sentinel. What the
\* entry of runChecks leaves: res, the position, and the probes started with
\* their results slice.
runChecksEntry(target, overridePort) ==
    LET res0 == [ZeroResult EXCEPT !.Target = target]
        norm == normalizeURL(target)
        u    == urlParse(norm.url)
        port == resolvePort(u, overridePort)
    IN  IF norm.err # ""
        THEN [res |-> [res0 EXCEPT !.Results = <<errorSentinel("invalid URL: " \o norm.err)>>],
              cpc |-> "returned", probes |-> <<>>, cresults |-> <<>>]
        ELSE IF u.err
        THEN [res |-> [res0 EXCEPT !.Results =
                         <<errorSentinel("invalid URL after normalization: parse")>>],
              cpc |-> "returned", probes |-> <<>>, cresults |-> <<>>]
        ELSE [res |-> [res0 EXCEPT !.Port = port, !.URL = urlWithPort(u, port)],
              cpc |-> "probing",
              probes |-> [i \in 1..4 |-> "run"],
              cresults |-> [i \in 1..4 |-> ZeroVersionResult]]

\* The entry of runChecks for the targets and override ports tried.
entryOf == [t \in CheckTargets, o \in CheckOverrides |-> runChecksEntry(t, o)]

RunChecksStart ==
    /\ cpc = "start"
    /\ res' = entryOf[ctarget, coverride].res
    /\ cpc' = entryOf[ctarget, coverride].cpc
    /\ probes' = entryOf[ctarget, coverride].probes
    /\ cresults' = entryOf[ctarget, coverride].cresults
    /\ UNCHANGED <<raceVars, lockVars, timeVars, sliceVars, callVars, schedVars, cacheVars, ctarget, coverride, hasH2, hasH3, tlsProto,
                   alpn, unresolved, overtaken>>

\* results[i] = v   (lines 332, 365, 404, 441)
WriteSlotFromEnd(slice, i, v) == [slice EXCEPT ![Len(slice) + 1 - i] = v]

WriteSlot(slice, i, v) == [slice EXCEPT ![i] = v]

\* Probe i finishes while a probe of a lower index is still on the network.
FinishesEarly(i) == \E j \in 1..(i - 1) : probes[j] = "run"

\* markIfUnresolved, lines 284-291.
markIfUnresolvedNever(o) == unresolved

markIfUnresolved(o) == unresolved \/ (o.kind = "err" /\ isNotFound(o.err))

\* Lines 295-333: the HTTP/1.0 probe gets its answer and writes results[0].
Probe10(o) ==
    /\ cpc = "probing" /\ probes[1] = "run"
    /\ cresults' = WriteSlot(cresults, 1, classify10(o))
    /\ overtaken' = (overtaken \/ FinishesEarly(1))
    /\ unresolved' = markIfUnresolved(o)
    /\ probes' = [probes EXCEPT ![1] = "written"]
    /\ UNCHANGED <<raceVars, lockVars, timeVars, sliceVars, callVars, schedVars, cacheVars, ctarget, coverride, cpc, hasH2, hasH3, tlsProto, alpn, res>>

\* Lines 336-366: the HTTP/1.1 probe.
Probe11(o) ==
    /\ cpc = "probing" /\ probes[2] = "run"
    /\ cresults' = WriteSlot(cresults, 2, classify11(o))
    /\ overtaken' = (overtaken \/ FinishesEarly(2))
    /\ unresolved' = markIfUnresolved(o)
    /\ probes' = [probes EXCEPT ![2] = "written"]
    /\ UNCHANGED <<raceVars, lockVars, timeVars, sliceVars, callVars, schedVars, cacheVars, ctarget, coverride, cpc, hasH2, hasH3, tlsProto, alpn, res>>

\* Lines 380-395: tlsProto and alpn after the HTTP/2.0 probe's request, set
\* from the TLS state of the response when there is a response with one.
recordTLSOnlyForH2(o) ==
    IF o.kind = "resp" /\ o.tls # "none" /\ ProtoMajor(o.proto) = 2
    THEN [tlsProto |-> tlsName(o.tls), alpn |-> o.alpn]
    ELSE [tlsProto |-> tlsProto, alpn |-> alpn]

recordTLS(o) ==
    IF o.kind = "resp" /\ o.tls # "none"
    THEN [tlsProto |-> tlsName(o.tls), alpn |-> o.alpn]
    ELSE [tlsProto |-> tlsProto, alpn |-> alpn]

\* Lines 369-405: the HTTP/2.0 probe, which also records the TLS version and
\* the ALPN protocol whenever the response carries a TLS state.
Probe2(o) ==
    /\ cpc = "probing" /\ probes[3] = "run"
    /\ cresults' = WriteSlot(cresults, 3, classify2(o))
    /\ overtaken' = (overtaken \/ FinishesEarly(3))
    /\ unresolved' = markIfUnresolved(o)
    /\ tlsProto' = recordTLS(o).tlsProto
    /\ alpn' = recordTLS(o).alpn
    /\ hasH2' = (hasH2 \/ (o.kind = "resp" /\ ProtoMajor(o.proto) = 2))
    /\ probes' = [probes EXCEPT ![3] = "written"]
    /\ UNCHANGED <<raceVars, lockVars, timeVars, sliceVars, callVars, schedVars, cacheVars, ctarget, coverride, cpc, hasH3, res>>

\* Lines 408-442: the HTTP/3.0 probe.
Probe3(o) ==
    /\ cpc = "probing" /\ probes[4] = "run"
    /\ cresults' = WriteSlot(cresults, 4, classify3(o))
    /\ overtaken' = (overtaken \/ FinishesEarly(4))
    /\ unresolved' = markIfUnresolved(o)
    /\ hasH3' = (hasH3 \/ (o.kind = "resp" /\ ProtoMajor(o.proto) = 3))
    /\ probes' = [probes EXCEPT ![4] = "written"]
    /\ UNCHANGED <<raceVars, lockVars, timeVars, sliceVars, callVars, schedVars, cacheVars, ctarget, coverride, cpc, hasH2, tlsProto, alpn, res>>

\* The deferred wg.Done() of probe i (lines 296, 337, 370, 409).
ProbeDone(i) ==
    /\ cpc = "probing" /\ probes[i] = "written"
    /\ probes' = [probes EXCEPT ![i] = "done"]
    /\ UNCHANGED <<raceVars, lockVars, timeVars, sliceVars, callVars, schedVars, cacheVars, ctarget, coverride, cpc, cresults, hasH2, hasH3, tlsProto,
                   alpn, unresolved, res, overtaken>>

\* wg.Wait() returns (line 444).
SomeProbeDone == \E i \in 1..4 : probes[i] = "done"

AllProbesDone == \A i \in 1..4 : probes[i] = "done"

\* Lines 444-458: join, then fill in the CheckResult and return it.
RunChecksJoin ==
    /\ cpc = "probing"
    /\ AllProbesDone
    /\ LET g == computeMinimalGrade(hasH3, hasH2, tlsProto)
       IN  res' = [res EXCEPT !.Results = cresults,
                              !.Unresolved = unresolved,
                              !.Score = g[1], !.Grade = g[2],
                              !.ALPN = alpn, !.TLSVersion = tlsProto]
    /\ cpc' = "returned"
    /\ UNCHANGED <<raceVars, lockVars, timeVars, sliceVars, callVars, schedVars, cacheVars, ctarget, coverride, probes, cresults, hasH2, hasH3,
                   tlsProto, alpn, unresolved, overtaken>>

NextCheck ==
    \/ RunChecksStart
    \/ \E o \in Outcomes10 : Probe10(o)
    \/ \E o \in Outcomes11 : Probe11(o)
    \/ \E o \in Outcomes2 : Probe2(o)
    \/ \E o \in Outcomes3 : Probe3(o)
    \/ \E i \in 1..4 : ProbeDone(i)
    \/ RunChecksJoin

SpecCheck == InitCheck /\ [][NextCheck]_vars

ProtocolOrder == <<"HTTP/1.0", "HTTP/1.1", "HTTP/2.0", "HTTP/3.0">>

\* ---- one target's check with the clients' timeouts (check.go:21-25, 246-275)

\* Seconds.
h1Timeout == 2

h2Timeout == 2

h3Timeout == 3

\* The timeout of probe i's client: h1Client for HTTP/1.0 and HTTP/1.1 (lines
\* 258-261, 307, 350), h2Client (271-274, 372), h3Client and ctx3 (286-289,
\* 418-422).
probeTimeoutOfH3(i) == h3Timeout

probeTimeout(i) ==
    CASE i = 1 -> h1Timeout [] i = 2 -> h1Timeout [] i = 3 -> h2Timeout [] i = 4 -> h3Timeout

\* The client gave the request up at its deadline.
isTimeout(o) == o.kind = "err" /\ o.err = ErrTimeout

\* Probe i's request can end with outcome o now: the client's timer fires when
\* the timeout has elapsed, not before.
inTime(i, o) == isTimeout(o) => elapsed = probeTimeout(i)

OutcomesOf(i) ==
    CASE i = 1 -> Outcomes10 [] i = 2 -> Outcomes11 [] i = 3 -> Outcomes2 [] i = 4 -> Outcomes3

classifyOf(i, o) ==
    CASE i = 1 -> classify10(o) [] i = 2 -> classify11(o) [] i = 3 -> classify2(o)
      [] i = 4 -> classify3(o)

\* The answers tried in the timed runs: for each probe the timeout, the
\* resolver's failure, and a response of the probe's own protocol version
\* (over TLS 1.3 where the probe records the TLS state).
TimedOutcomes(i) ==
    {o \in OutcomesOf(i) :
        \/ isTimeout(o)
        \/ o = Fail(ErrNoSuchHost)
        \/ o.kind = "resp" /\ o.proto = ProtocolOrder[i] /\ o.tls \in {"none", "1.3"}}

\* The target and override port of the timed runs: "a.co", no override.
TimedTargets == { <<"a", ".", "c", "o">> }

InitTimed ==
    /\ InitCheck
    /\ ctarget \in TimedTargets
    /\ coverride = <<>>

\* Probe i's request ends with outcome o and the probe writes its result.
TimedProbe(i, o) ==
    /\ inTime(i, o)
    /\ \/ i = 1 /\ Probe10(o)
       \/ i = 2 /\ Probe11(o)
       \/ i = 3 /\ Probe2(o)
       \/ i = 4 /\ Probe3(o)

\* A second passes while requests are out; a request whose client's timeout
\* has elapsed ends before the next second does.
Tock ==
    /\ cpc = "probing"
    /\ \E i \in 1..4 : probes[i] = "run"
    /\ \A i \in 1..4 : probes[i] = "run" => elapsed < probeTimeout(i)
    /\ elapsed' = elapsed + 1
    /\ UNCHANGED <<lockVars, raceVars, sliceVars, callVars, schedVars, cacheVars, checkVars>>

NextTimed ==
    \/ RunChecksStart
    \/ \E i \in 1..4 : \E o \in TimedOutcomes(i) : TimedProbe(i, o)
    \/ \E i \in 1..4 : ProbeDone(i)
    \/ RunChecksJoin
    \/ Tock

SpecTimed == InitTimed /\ [][NextTimed]_vars

\* The Go scheduler runs a goroutine that can take a step.
SpecTimedFair == SpecTimed /\ WF_vars(NextTimed)

\* C3: a target that passes validation gets exactly four results, for HTTP/1.0,
\* 1.1, 2.0 and 3.0 in that order, whatever order the probes finished in; a
\* target that fails validation gets the single "error" result.
C3_ResultsShape ==
    cpc = "returned" =>
        IF normalizeURL(ctarget).err = ""
        THEN /\ Len(res.Results) = 4
             /\ \A i \in 1..4 : res.Results[i].Version = ProtocolOrder[i]
        ELSE /\ Len(res.Results) = 1
             /\ res.Results[1].Version = "error"

\* C3 witness: a valid target's check has returned after a probe overtook one
\* of a lower index.
C3_Witness ==
    /\ cpc = "returned" /\ overtaken
    /\ normalizeURL(ctarget).err = ""
    /\ Len(res.Results) = 4

InvalidCheckTargets ==
    { <<"L", "o", "c", "a", "l", "h", "o", "s", "t">>,
      <<"b", " ", "c">>,
      <<"b", "\"", ">", "A">>,
      <<>> }

\* C13: for a target that fails validation runChecks starts none of the four
\* probes, at any time, and what it returns has the target, a single
\* VersionResult with Version "error", Error set and Supported not, and
\* Score, Grade, URL and Port (also with an override port) left at zero.
C13_ValidationSentinel ==
    ctarget \in InvalidCheckTargets =>
        /\ cpc \in {"start", "returned"}
        /\ probes = <<>> /\ cresults = <<>>
        /\ ~hasH2 /\ ~hasH3 /\ ~unresolved /\ tlsProto = "" /\ alpn = ""
        /\ cpc = "returned" =>
            /\ res.Target = ctarget
            /\ Len(res.Results) = 1
            /\ res.Results[1].Version = "error"
            /\ res.Results[1].Error
            /\ ~res.Results[1].Supported
            /\ res.Score = 0 /\ res.Grade = ""
            /\ res.URL = <<>> /\ res.Port = <<>>
            /\ ~res.Unresolved

\* C13 witness: runChecks has returned for "Localhost" with an override port.
C13_Witness ==
    /\ cpc = "returned"
    /\ EqualFold(ctarget, LocalhostName)
    /\ coverride # <<>>
    /\ Len(res.Results) = 1

\* C15: when the HTTP/3 client's request fails, with any error, the probe
\* writes the HTTP/3.0 VersionResult with Supported and Error both false and
\* the error in Evidence; and whatever the outcome, Supported is set iff a
\* response with protocol major version 3 arrived.
C15_HTTP3FailureIsNoError ==
    [][\A o \in Outcomes3 :
        Probe3(o) =>
            /\ cresults'[4].Version = "HTTP/3.0"
            /\ o.kind = "err" =>
                /\ ~cresults'[4].Supported
                /\ ~cresults'[4].Error
                /\ cresults'[4].Evidence = o.err
            /\ cresults'[4].Supported <=> (o.kind = "resp" /\ ProtoMajor(o.proto) = 3)
            /\ hasH3' = cresults'[4].Supported]_vars

\* C15 witness: runChecks has returned an HTTP/3.0 result that holds a
\* timeout in Evidence and is neither supported nor an error, next to an
\* HTTP/2.0 result whose timeout is an error.
C15_Witness ==
    /\ cpc = "returned"
    /\ Len(res.Results) = 4
    /\ res.Results[4].Version = "HTTP/3.0"
    /\ res.Results[4].Evidence = ErrTimeout
    /\ ~res.Results[4].Error /\ ~res.Results[4].Supported
    /\ res.Results[3].Evidence = ErrTimeout
    /\ res.Results[3].Error

\* runChecks has returned for a host without DNS records: each of the four
\* requests failed with the resolver's "no such host".
ReturnedWithoutDNS ==
    /\ cpc = "returned"
    /\ Len(res.Results) = 4
    /\ \A i \in 1..4 : res.Results[i].Evidence = ErrNoSuchHost

\* C16 as stated: for a host without DNS records runChecks returns
\* Unresolved set and all four VersionResults with Error set.
C16_AllFourReportError ==
    ReturnedWithoutDNS =>
        /\ res.Unresolved
        /\ \A i \in 1..4 : res.Results[i].Error

\* C16 amended: for a host without DNS records runChecks returns Unresolved
\* set; the HTTP/1.0, HTTP/1.1 and HTTP/2.0 results have Error set, Supported
\* not, and a Detail that carries the DNS failure; the HTTP/3.0 result has
\* neither Error nor Supported set and carries the DNS failure in Evidence.
C16_UnresolvedThreeReportError ==
    ReturnedWithoutDNS =>
        /\ res.Unresolved
        /\ \A i \in 1..3 :
            /\ res.Results[i].Error
            /\ ~res.Results[i].Supported
            /\ res.Results[i].Detail = "not supported (or probe failed): " \o ErrNoSuchHost
        /\ ~res.Results[4].Error
        /\ ~res.Results[4].Supported
        /\ res.Results[4].Version = "HTTP/3.0"

\* C16 witness: runChecks has returned for a host without DNS records, with
\* Unresolved set.
C16_Witness == ReturnedWithoutDNS /\ res.Unresolved /\ res.Port = Port443

\* C17: when the HTTP/1.0 request fails with TCP connection refused the
\* probe writes Supported false, Error true and the Detail "not supported
\* (good) - TCP connection refused"; when it fails with any other error it
\* writes Supported false, Error true and the Detail "not supported (or probe
\* failed): " with the error.
C17_HTTP10Refused ==
    [][\A o \in Outcomes10 :
        (Probe10(o) /\ o.kind = "err") =>
            /\ cresults'[1].Version = "HTTP/1.0"
            /\ ~cresults'[1].Supported
            /\ cresults'[1].Error
            /\ cresults'[1].Evidence = o.err
            /\ o.err = "connect: connection refused" =>
                cresults'[1].Detail = "not supported (good) - TCP connection refused"
            /\ o.err # "connect: connection refused" =>
                cresults'[1].Detail = "not supported (or probe failed): " \o o.err]_vars

\* C17 witness: runChecks has returned with the HTTP/1.0 result of a refused
\* connection.
C17_Witness ==
    /\ cpc = "returned"
    /\ Len(res.Results) = 4
    /\ res.Results[1].Evidence = ErrRefused
    /\ res.Results[1].Error
    /\ res.Results[1].Detail = "not supported (good) - TCP connection refused"

\* C18: no VersionResult runChecks writes or returns, for any probe and any
\* outcome or for the validation sentinel, has Supported and Error both set.
C18_SupportedErrorExclusive ==
    /\ \A i \in DOMAIN cresults : ~(cresults[i].Supported /\ cresults[i].Error)
    /\ \A i \in DOMAIN res.Results : ~(res.Results[i].Supported /\ res.Results[i].Error)

\* C18 witness: runChecks has returned results of which one is an error, one
\* is supported and one, a response of another protocol version, is neither.
C18_Witness ==
    /\ cpc = "returned"
    /\ Len(res.Results) = 4
    /\ res.Results[1].Error /\ res.Results[1].Evidence = ErrRefused
    /\ res.Results[2].Supported
    /\ ~res.Results[3].Supported /\ ~res.Results[3].Error /\ res.Results[3].Evidence = ""
    /\ res.Results[4].Error

\* C23: the HTTP/1.0 probe writes Supported set iff a response with protocol
\* major version 1 arrived, be it HTTP/1.0 (Detail "supported") or HTTP/1.1
\* (Detail telling of the upgrade); for a response of another major version
\* it writes Supported and Error both unset.
C23_HTTP10SupportedIffMajorOne ==
    [][\A o \in Outcomes10 :
        Probe10(o) =>
            /\ cresults'[1].Version = "HTTP/1.0"
            /\ cresults'[1].Supported <=>
                 (o.kind = "resp" /\ o.proto \in {"HTTP/1.0", "HTTP/1.1"})
            /\ (o.kind = "resp" /\ o.proto = "HTTP/1.0") =>
                 cresults'[1].Detail = "supported" /\ ~cresults'[1].Error
            /\ (o.kind = "resp" /\ o.proto = "HTTP/1.1") =>
                 /\ cresults'[1].Detail = "server upgraded HTTP/1.0 request to HTTP/1.1 (good)"
                 /\ ~cresults'[1].Error
            /\ (o.kind = "resp" /\ o.proto \notin {"HTTP/1.0", "HTTP/1.1"}) =>
                 /\ ~cresults'[1].Supported
                 /\ ~cresults'[1].Error
                 /\ cresults'[1].Detail = "server replied with " \o o.proto]_vars

\* C23 witness: runChecks has returned an HTTP/1.0 result that is supported
\* after an HTTP/1.1 reply, next to an HTTP/1.1 result that is supported.
C23_Witness ==
    /\ cpc = "returned"
    /\ Len(res.Results) = 4
    /\ res.Results[1].Version = "HTTP/1.0"
    /\ res.Results[1].Supported
    /\ res.Results[1].Detail = "server upgraded HTTP/1.0 request to HTTP/1.1 (good)"
    /\ res.Results[2].Supported

\* The HTTP/2.0 probe's connection completed a TLS handshake.
HandshakeDone(o) == "tls" \in DOMAIN o /\ o.tls # "none"

\* tlsProto and alpn change in no step but the HTTP/2.0 probe's, and the
\* CheckResult returned after the probes holds their values.
TLSOnlyFromProbe2 ==
    /\ (\A o \in Outcomes2 : ~Probe2(o)) => UNCHANGED <<tlsProto, alpn>>
    /\ RunChecksJoin => res'.ALPN = alpn /\ res'.TLSVersion = tlsProto

\* C24 as stated: alpn and tls_version come from the HTTP/2.0 probe only, and
\* whenever that probe's connection completes a TLS handshake they are
\* recorded, whether or not the HTTP/2.0 result is supported.
C24_TLSRecordedAfterHandshake ==
    [][/\ TLSOnlyFromProbe2
       /\ \A o \in Outcomes2 :
            (Probe2(o) /\ HandshakeDone(o)) =>
                tlsProto' = tlsName(o.tls) /\ alpn' = o.alpn]_vars

\* C24 amended: alpn and tls_version come from the HTTP/2.0 probe only. When
\* that probe gets a response over TLS they are recorded, whatever protocol
\* the response has (so also when the HTTP/2.0 result is not supported):
\* alpn is the negotiated protocol and tls_version the name of TLS 1.0 to 1.3,
\* empty for another version. When the probe gets no response, also after a
\* completed handshake, or a response without TLS, both stay empty.
C24_TLSRecordedFromResponse ==
    [][/\ TLSOnlyFromProbe2
       /\ \A o \in Outcomes2 :
            Probe2(o) =>
                IF o.kind = "resp" /\ o.tls # "none"
                THEN /\ alpn' = o.alpn
                     /\ tlsProto' = (IF o.tls \in {"1.0", "1.1", "1.2", "1.3"}
                                     THEN "TLS " \o o.tls ELSE "")
                ELSE alpn' = "" /\ tlsProto' = ""]_vars

\* C24 witness: runChecks has returned the TLS version and "http/1.1" as
\* ALPN protocol with an HTTP/2.0 result that is not supported.
C24_Witness ==
    /\ cpc = "returned"
    /\ Len(res.Results) = 4
    /\ ~res.Results[3].Supported /\ ~res.Results[3].Error
    /\ res.ALPN = "http/1.1"
    /\ res.TLSVersion = "TLS 1.2"

\* C25: runChecks fills in and returns the CheckResult of a valid target only
\* after all four probes have finished. While a probe may still run the
\* result holds no results, score, grade, ALPN protocol, TLS version or
\* unresolved flag; once it is returned every probe is done, every slot is
\* written, and the result's fields are those the probes left.
C25_ReturnAfterJoin ==
    /\ cpc = "probing" =>
        /\ res.Results = <<>> /\ res.Score = 0 /\ res.Grade = ""
        /\ res.ALPN = "" /\ res.TLSVersion = "" /\ ~res.Unresolved
    /\ (cpc = "returned" /\ probes # <<>>) =>
        /\ \A i \in 1..4 : probes[i] = "done"
        /\ \A i \in 1..4 : cresults[i].Version = ProtocolOrder[i]
        /\ res.Results = cresults
        /\ res.Unresolved = unresolved
        /\ res.ALPN = alpn /\ res.TLSVersion = tlsProto
        /\ res.Grade # ""

\* C25 witness: runChecks has returned after its HTTP/3.0 probe, the last to
\* be started, was overtaken by none and found HTTP/3.
C25_Witness ==
    /\ cpc = "returned"
    /\ \A i \in DOMAIN probes : probes[i] = "done"
    /\ Len(res.Results) = 4
    /\ res.Results[4].Supported
    /\ res.Grade = "A"
    /\ ~overtaken

\* C29: a probe's request is out for at most its timeout (2 s for HTTP/1.0,
\* 1.1 and 2.0, 3 s for HTTP/3.0); whatever became of its siblings, a probe
\* whose request is out can get any answer of the network, the result it
\* writes is the one for its own answer, and it leaves the siblings and their
\* results alone; and runChecks eventually returns, with four results.
C29_TimeoutsAreIndependent ==
    /\ [](\A i \in DOMAIN probes :
            probes[i] = "run" => elapsed <= (IF i = 4 THEN 3 ELSE 2))
    /\ [](\A i \in DOMAIN probes :
            probes[i] = "run" =>
                \A o \in TimedOutcomes(i) : ~isTimeout(o) => ENABLED TimedProbe(i, o))
    /\ [][\A i \in 1..4 : \A o \in TimedOutcomes(i) :
            TimedProbe(i, o) =>
                /\ cresults'[i] = classifyOf(i, o)
                /\ \A j \in (1..4) \ {i} :
                     cresults'[j] = cresults[j] /\ probes'[j] = probes[j]]_vars
    /\ <>(cpc = "returned" /\ Len(res.Results) = 4)

\* C29 witness: runChecks has returned after the HTTP/1.0 and the HTTP/3.0
\* requests ran into their timeouts, with the HTTP/1.1 and HTTP/2.0 results
\* supported.
C29_Witness ==
    /\ cpc = "returned"
    /\ elapsed = 3
    /\ Len(res.Results) = 4
    /\ res.Results[1].Evidence = ErrTimeout /\ res.Results[1].Error
    /\ res.Results[2].Supported
    /\ res.Results[3].Supported
    /\ res.Results[4].Evidence = ErrTimeout

\* A probe's request failed because the name has no DNS record: err.Error()
\* is kept in the probe's Evidence (lines 311, 352, 375, 428).
FailedNotFound(v) == v.Evidence = ErrNoSuchHost

SchedTargets == <<"a.com", "b.com", "c.com">>

\* The targets slices tried: for each length n, the names taken round-robin in
\* both directions (so slices with repeated names occur from length 4 on).
SchedInputs ==
    UNION {{[i \in 1..n |-> SchedTargets[((i - 1) % 3) + 1]],
            [i \in 1..n |-> SchedTargets[((n - i) % 3) + 1]]} : n \in 0..MaxTargets}

\* What one runChecks call can come back with, as far as the scheduler can
\* tell: the grade of a valid target. The scheduler only passes the value on.
SchedGrades == {"A"}

\* runtime.NumCPU() values tried. 4 * NumCPU is at least 4, so with the slices
\* above only one CPU gives fewer workers than targets; any larger count
\* gives one worker per target, which lengths 1..4 already show.
CPUCounts == {1}

\* The zero CheckResult of make([]CheckResult, n).
ZeroCheckResult == [Target |-> "", Grade |-> ""]

\* runChecks(target, overridePort) seen from the scheduler: Target is always
\* the argument; the rest is decided by the network.
runChecksOutcome(target, grade) == [Target |-> target, Grade |-> grade]

maxWorkers == 64

workerCountForTargetsUncapped(n, cpus) ==
    IF n <= 0 THEN 0
    ELSE LET wc0 == cpus * 4
             wc2 == IF wc0 > n THEN n ELSE wc0
         IN  IF wc2 < 1 THEN 1 ELSE wc2

workerCountForTargets(n, cpus) ==
    IF n <= 0 THEN 0
    ELSE LET wc0 == cpus * 4
             wc1 == IF wc0 > maxWorkers THEN maxWorkers ELSE wc0
             wc2 == IF wc1 > n THEN n ELSE wc1
         IN  IF wc2 < 1 THEN 1 ELSE wc2

Workers == DOMAIN workers

NTargets == Len(targets)

\* results[idx] = r   (check.go:504)
StoreResultFirstFree(slice, idx, r) ==
    LET free == {i \in DOMAIN slice : slice[i] = ZeroCheckResult}
    IN  IF free = {} THEN slice
        ELSE [slice EXCEPT ![CHOOSE i \in free : \A j \in free : i <= j] = r]

StoreResult(slice, idx, r) == [slice EXCEPT ![idx] = r]

\* for i := range targets: the index after i.
NextJobSkipping(i) == i + 2

NextJob(i) == i + 1

\* A check of index idx completes while a lower index is still unfinished.
CompletesEarly(idx) ==
    \E j \in 1..(idx - 1) :
        \/ j >= feedi
        \/ \E w \in Workers : workers[w].pc \in {"check"} /\ workers[w].idx = j

IdleWorker == [pc |-> "recv", idx |-> 0, res |-> ZeroCheckResult]

\* The per-target check at rest, for the specifications that do not run it.
IdleCheck ==
    /\ ctarget = <<>> /\ coverride = <<>> /\ cpc = "idle" /\ probes = <<>>
    /\ cresults = <<>> /\ hasH2 = FALSE /\ hasH3 = FALSE /\ tlsProto = ""
    /\ alpn = "" /\ unresolved = FALSE /\ res = <<>> /\ overtaken = FALSE

InitSched ==
    /\ IdleTime
    /\ IdleRace
    /\ IdleLock
    /\ IdleSlice
    /\ IdleCheck
    /\ IdleCache
    /\ IdleCall
    /\ mode \in {"ordered", "stream"}
    /\ targets \in SchedInputs
    /\ numCPU \in CPUCounts
    /\ mainpc = "start"
    /\ feedi = 1
    /\ jobsClosed = FALSE
    /\ workers = <<>>
    /\ results = <<>>
    /\ resultsClosed = FALSE
    /\ printed = <<>>
    /\ taken = [i \in 1..Len(targets) |-> 0]
    /\ inverted = FALSE

\* for i := 0; i < workerCount; i++ { wg.Add(1); go func() {...}() }
\* (lines 497-507 and 533-543)
spawnWorkersPerTarget(workerCount) == [w \in 1..NTargets |-> IdleWorker]

spawnWorkers(workerCount) == [w \in 1..workerCount |-> IdleWorker]

\* `for i := range targets` has ended (lines 509-511 and 547-549).
FeedDoneAfterOneMore == feedi > NTargets + 1

FeedDone == feedi > NTargets

\* wg.Wait() returns (lines 513 and 555): every worker has called wg.Done().
NoWorkerBusy == \A w \in Workers : workers[w].pc \in {"recv", "done"}

AllWorkersDone == \A w \in Workers : workers[w].pc = "done"

\* ---- ordered mode: runChecksMulti (check.go:487-516)

\* Lines 488-507: allocate results, return at once for n = 0, else start the
\* workers. No job is sent before the spawn loop ends, so the spawn is one step.
MultiStart ==
    /\ mode = "ordered" /\ mainpc = "start"
    /\ results' = [i \in 1..NTargets |-> ZeroCheckResult]
    /\ IF NTargets = 0
       THEN /\ mainpc' = "returned"
            /\ workers' = workers
       ELSE /\ mainpc' = "feed"
            /\ workers' = spawnWorkers(workerCountForTargets(NTargets, numCPU))
    /\ UNCHANGED <<raceVars, lockVars, timeVars, sliceVars, callVars, checkVars, cacheVars, mode, targets, numCPU, feedi, jobsClosed, resultsClosed,
                   printed, taken, inverted>>

\* Lines 509-511 with 503: jobs is unbuffered, so `jobs <- i` and a worker's
\* receive are one rendezvous.
MultiFeed(w) ==
    /\ mode = "ordered" /\ mainpc = "feed"
    /\ feedi <= NTargets
    /\ workers[w].pc = "recv"
    /\ workers' = [workers EXCEPT ![w] = [pc |-> "check", idx |-> feedi, res |-> ZeroCheckResult]]
    /\ taken' = [taken EXCEPT ![feedi] = @ + 1]
    /\ feedi' = NextJob(feedi)
    /\ UNCHANGED <<raceVars, lockVars, timeVars, sliceVars, callVars, checkVars, cacheVars, mode, targets, numCPU, mainpc, jobsClosed, results,
                   resultsClosed, printed, inverted>>

\* Line 512.
MultiCloseJobs ==
    /\ mode = "ordered" /\ mainpc = "feed"
    /\ FeedDone
    /\ jobsClosed' = TRUE
    /\ mainpc' = "wait"
    /\ UNCHANGED <<raceVars, lockVars, timeVars, sliceVars, callVars, checkVars, cacheVars, mode, targets, numCPU, feedi, workers, results,
                   resultsClosed, printed, taken, inverted>>

\* Line 504: results[idx] = runChecks(targets[idx], overridePort).
MultiWorkerCheck(w) ==
    /\ mode = "ordered"
    /\ workers[w].pc = "check"
    /\ \E g \in SchedGrades :
        results' = StoreResult(results, workers[w].idx,
                               runChecksOutcome(targets[workers[w].idx], g))
    /\ inverted' = (inverted \/ CompletesEarly(workers[w].idx))
    /\ workers' = [workers EXCEPT ![w] = IdleWorker]
    /\ UNCHANGED <<raceVars, lockVars, timeVars, sliceVars, callVars, checkVars, cacheVars, mode, targets, numCPU, mainpc, feedi, jobsClosed,
                   resultsClosed, printed, taken>>

\* Lines 502-503: the range loop ends on the closed channel; wg.Done().
MultiWorkerExit(w) ==
    /\ mode = "ordered"
    /\ workers[w].pc = "recv"
    /\ jobsClosed
    /\ workers' = [workers EXCEPT ![w].pc = "done"]
    /\ UNCHANGED <<raceVars, lockVars, timeVars, sliceVars, callVars, checkVars, cacheVars, mode, targets, numCPU, mainpc, feedi, jobsClosed, results,
                   resultsClosed, printed, taken, inverted>>

\* Lines 513-515: wg.Wait() returns once every worker called Done.
MultiReturn ==
    /\ mode = "ordered" /\ mainpc = "wait"
    /\ AllWorkersDone
    /\ mainpc' = "returned"
    /\ UNCHANGED <<raceVars, lockVars, timeVars, sliceVars, callVars, checkVars, cacheVars, mode, targets, numCPU, feedi, jobsClosed, workers, results,
                   resultsClosed, printed, taken, inverted>>

\* ---- streaming mode: CheckHTTPVersionsMulti (check.go:521-574)

\* Lines 522-557: return at once for n = 0, else start the workers, the
\* feeder and the closer, and enter the print loop.
StreamStart ==
    /\ mode = "stream" /\ mainpc = "start"
    /\ IF NTargets = 0
       THEN /\ mainpc' = "returned"
            /\ workers' = workers
       ELSE /\ mainpc' = "consume"
            /\ workers' = spawnWorkers(workerCountForTargets(NTargets, numCPU))
    /\ UNCHANGED <<raceVars, lockVars, timeVars, sliceVars, callVars, checkVars, cacheVars, mode, targets, numCPU, feedi, jobsClosed, results,
                   resultsClosed, printed, taken, inverted>>

\* Lines 547-549 with 539: the feeder goroutine's send meets a worker's receive.
StreamFeed(w) ==
    /\ mode = "stream" /\ mainpc = "consume"
    /\ ~jobsClosed
    /\ feedi <= NTargets
    /\ workers[w].pc = "recv"
    /\ workers' = [workers EXCEPT ![w] = [pc |-> "check", idx |-> feedi, res |-> ZeroCheckResult]]
    /\ taken' = [taken EXCEPT ![feedi] = @ + 1]
    /\ feedi' = NextJob(feedi)
    /\ UNCHANGED <<raceVars, lockVars, timeVars, sliceVars, callVars, checkVars, cacheVars, mode, targets, numCPU, mainpc, jobsClosed, results,
                   resultsClosed, printed, inverted>>

\* Line 550.
StreamCloseJobs ==
    /\ mode = "stream" /\ mainpc = "consume"
    /\ ~jobsClosed
    /\ FeedDone
    /\ jobsClosed' = TRUE
    /\ UNCHANGED <<raceVars, lockVars, timeVars, sliceVars, callVars, checkVars, cacheVars, mode, targets, numCPU, mainpc, feedi, workers, results,
                   resultsClosed, printed, taken, inverted>>

\* Line 540, right-hand side: runChecks returns; the worker now holds the
\* value it is about to send.
StreamWorkerCheck(w) ==
    /\ mode = "stream"
    /\ workers[w].pc = "check"
    /\ \E g \in SchedGrades :
        workers' = [workers EXCEPT ![w] =
                      [pc |-> "send", idx |-> @.idx,
                       res |-> runChecksOutcome(targets[@.idx], g)]]
    /\ inverted' = (inverted \/ CompletesEarly(workers[w].idx))
    /\ UNCHANGED <<raceVars, lockVars, timeVars, sliceVars, callVars, checkVars, cacheVars, mode, targets, numCPU, mainpc, feedi, jobsClosed, results,
                   resultsClosed, printed, taken>>

\* Line 540 `results <- ...` meets line 560 `for res := range results`;
\* lines 561-572 print the value.
StreamWorkerSend(w) ==
    /\ mode = "stream" /\ mainpc = "consume"
    /\ workers[w].pc = "send"
    /\ ~resultsClosed
    /\ printed' = Append(printed, workers[w].res)
    /\ workers' = [workers EXCEPT ![w] = IdleWorker]
    /\ UNCHANGED <<raceVars, lockVars, timeVars, sliceVars, callVars, checkVars, cacheVars, mode, targets, numCPU, mainpc, feedi, jobsClosed, results,
                   resultsClosed, taken, inverted>>

\* Lines 538-539: the range loop ends on the closed channel; wg.Done().
StreamWorkerExit(w) ==
    /\ mode = "stream"
    /\ workers[w].pc = "recv"
    /\ jobsClosed
    /\ workers' = [workers EXCEPT ![w].pc = "done"]
    /\ UNCHANGED <<raceVars, lockVars, timeVars, sliceVars, callVars, checkVars, cacheVars, mode, targets, numCPU, mainpc, feedi, jobsClosed, results,
                   resultsClosed, printed, taken, inverted>>

\* Lines 554-557: wg.Wait(); close(results).
StreamCloseResults ==
    /\ mode = "stream" /\ mainpc = "consume"
    /\ ~resultsClosed
    /\ AllWorkersDone
    /\ resultsClosed' = TRUE
    /\ UNCHANGED <<raceVars, lockVars, timeVars, sliceVars, callVars, checkVars, cacheVars, mode, targets, numCPU, mainpc, feedi, jobsClosed, workers,
                   results, printed, taken, inverted>>

\* Lines 560 and 574: the print loop ends on the closed channel.
StreamReturn ==
    /\ mode = "stream" /\ mainpc = "consume"
    /\ resultsClosed
    /\ mainpc' = "returned"
    /\ UNCHANGED <<raceVars, lockVars, timeVars, sliceVars, callVars, checkVars, cacheVars, mode, targets, numCPU, feedi, jobsClosed, workers, results,
                   resultsClosed, printed, taken, inverted>>

NextSched ==
    \/ MultiStart
    \/ \E w \in Workers : MultiFeed(w)
    \/ MultiCloseJobs
    \/ \E w \in Workers : MultiWorkerCheck(w)
    \/ \E w \in Workers : MultiWorkerExit(w)
    \/ MultiReturn
    \/ StreamStart
    \/ \E w \in Workers : StreamFeed(w)
    \/ StreamCloseJobs
    \/ \E w \in Workers : StreamWorkerCheck(w)
    \/ \E w \in Workers : StreamWorkerSend(w)
    \/ \E w \in Workers : StreamWorkerExit(w)
    \/ StreamCloseResults
    \/ StreamReturn

SpecSched == InitSched /\ [][NextSched]_vars

\* The Go scheduler runs a goroutine that can take a step, and every
\* per-target check returns: some step that can be taken is taken.
SpecSchedFair == SpecSched /\ WF_vars(NextSched)

Count(seq, x) == Cardinality({i \in DOMAIN seq : seq[i] = x})

\* C1: ordered mode returns a slice as long as the input whose i-th element
\* is the result for the i-th target, whatever order the checks completed in.
C1_OrderedOutputMatchesInput ==
    (mode = "ordered" /\ mainpc = "returned") =>
        /\ Len(results) = Len(targets)
        /\ \A i \in 1..Len(targets) : results[i].Target = targets[i]

\* C1 witness: an ordered batch with more targets than workers has returned
\* after some check overtook one of a lower index.
C1_Witness ==
    /\ mode = "ordered" /\ mainpc = "returned"
    /\ inverted
    /\ Len(targets) > Cardinality(Workers)
    /\ Cardinality(Range(targets)) >= 3

\* C2: every index is received from the job queue at most once and is held by
\* at most one worker; when the batch has returned every index was received
\* exactly once and there are exactly N results (ordered: the slice; stream:
\* the printed values, one per target, all printed before the stream closed).
C2_EveryTargetExactlyOnce ==
    /\ \A i \in 1..Len(targets) :
        /\ taken[i] <= 1
        /\ Cardinality({w \in Workers : workers[w].pc \in {"check", "send"}
                                         /\ workers[w].idx = i}) <= 1
    /\ (mode = "stream" /\ resultsClosed) => Len(printed) = Len(targets)
    /\ mainpc = "returned" =>
        /\ \A i \in 1..Len(targets) : taken[i] = 1
        /\ mode = "ordered" =>
            /\ Len(results) = Len(targets)
            /\ \A i \in 1..Len(targets) : results[i] # ZeroCheckResult
        /\ mode = "stream" =>
            /\ Len(printed) = Len(targets)
            /\ \A t \in Range(targets) :
                Count(printed, runChecksOutcome(t, "A")) = Count(targets, t)

\* C2 witness: a streamed batch with more targets than workers has returned
\* with its results printed out of input order.
C2_Witness ==
    /\ mode = "stream" /\ mainpc = "returned"
    /\ Len(targets) > Cardinality(Workers)
    /\ Len(printed) = Len(targets)
    /\ printed[1].Target # targets[1]

\* C26: in streaming mode the results channel is closed only when every
\* worker has finished, so no worker holds a value to send once it is closed,
\* and the consumer loop ends only after it received all N results; in
\* ordered mode the call returns only when every worker has finished and
\* every result is written.
C26_CloseAfterWorkers ==
    /\ resultsClosed =>
        /\ mode = "stream"
        /\ \A w \in Workers : workers[w].pc = "done"
        /\ Len(printed) = Len(targets)
    /\ (mode = "stream" /\ mainpc = "returned" /\ Len(targets) > 0) =>
        /\ resultsClosed
        /\ Len(printed) = Len(targets)
    /\ (mode = "ordered" /\ mainpc = "returned") =>
        /\ \A w \in Workers : workers[w].pc = "done"
        /\ \A i \in 1..Len(targets) : results[i].Target = targets[i]

\* C26 witness: a streamed batch with more targets than workers has its
\* results channel closed, the consumer not yet out of its loop.
C26_Witness ==
    /\ mode = "stream" /\ mainpc = "consume"
    /\ resultsClosed
    /\ Len(targets) > Cardinality(Workers)
    /\ Len(printed) = Len(targets)
    /\ \A w \in Workers : workers[w].pc = "done"

\* C27: as long as the batch has not returned some goroutine can take a
\* step (the feeder, the workers and the consumer are never all blocked), and
\* the batch eventually returns, in both modes, for every number of targets
\* and workers.
C27_BatchReturns ==
    /\ [](mainpc # "returned" => ENABLED NextSched)
    /\ <>(mainpc = "returned")

\* C27 witness: a batch with more targets than workers, and more than one
\* worker, has returned with its job channel closed and every worker gone.
C27_Witness ==
    /\ mainpc = "returned"
    /\ jobsClosed
    /\ Cardinality(Workers) > 1
    /\ Len(targets) > Cardinality(Workers)
    /\ AllWorkersDone

\* The targets whose check is running.
BeingChecked == {workers[w].idx : w \in {v \in Workers : workers[v].pc = "check"}}

\* C28: in both modes the number of targets being checked at one moment is
\* at most the number of workers, which is min(4 * NumCPU, 64, N) once they
\* are started, so at most 64 and at most the number of targets.
C28_ConcurrencyBound ==
    /\ Cardinality(BeingChecked) <= Cardinality(Workers)
    /\ Cardinality(BeingChecked) =
         Cardinality({w \in Workers : workers[w].pc = "check"})
    /\ Cardinality(Workers) <= 64
    /\ Cardinality(Workers) <= Len(targets)
    /\ Cardinality(Workers) <= 4 * numCPU
    /\ mainpc \notin {"start", "idle"} =>
         \/ Cardinality(Workers) = Len(targets)
         \/ Cardinality(Workers) = 4 * numCPU

\* C28 witness: with more targets than workers every worker is checking a
\* target while the feeder still has one to hand out.
C28_Witness ==
    /\ Len(targets) > Cardinality(Workers)
    /\ Cardinality(Workers) > 0
    /\ \A w \in Workers : workers[w].pc = "check"
    /\ feedi = Cardinality(Workers) + 1

\* ==================================================== web front end, cache
\* cmd/http1/web.go. Times are whole hours.

cacheTTL == 4

maxWebTargets == 5

maxRecentKeys == 32

recentLimit == 12

Whitespace == {" ", "\t", "\n", "\r"}

\* strings.TrimSpace
TrimSpace(s) ==
    LET keep == {i \in 1..Len(s) : s[i] \notin Whitespace}
    IN  IF keep = {} THEN <<>>
        ELSE SubSeq(s, CHOOSE i \in keep : \A j \in keep : i <= j,
                       CHOOSE i \in keep : \A j \in keep : i >= j)

\* strings.Join(list, ",")
RECURSIVE JoinComma(_)
JoinComma(list) ==
    IF Len(list) = 0 THEN <<>>
    ELSE IF Len(list) = 1 THEN list[1]
    ELSE list[1] \o <<",">> \o JoinComma(Tail(list))

\* cacheKey, web.go:621-627
cacheKeyNoLower(ts) == JoinComma([i \in 1..Len(ts) |-> TrimSpace(ts[i])])

cacheKey(ts) == JoinComma([i \in 1..Len(ts) |-> ToLower(TrimSpace(ts[i]))])

\* parseTargetsParam, web.go:595-619: the loop over the comma-separated parts.
RECURSIVE parseParts(_, _, _)
parseParts(parts, seen, acc) ==
    IF parts = <<>> THEN acc
    ELSE LET part == TrimSpace(Head(parts))
         IN  IF part = <<>> \/ ToLower(part) \in seen
             THEN parseParts(Tail(parts), seen, acc)
             ELSE parseParts(Tail(parts), seen \cup {ToLower(part)}, Append(acc, part))

parseTargetsParam(raw) ==
    IF TrimSpace(raw) = <<>> THEN <<>>
    ELSE parseParts(Split(TrimSpace(raw), ","), {}, <<>>)

\* hasSuccessfulResult, web.go:513-525
hasSuccessfulResultWithUnresolved(rs) ==
    \E i \in 1..Len(rs) : \E j \in 1..Len(rs[i].Results) : rs[i].Results[j].Supported

hasSuccessfulResult(rs) ==
    \E i \in 1..Len(rs) :
        /\ ~rs[i].Unresolved
        /\ \E j \in 1..Len(rs[i].Results) : rs[i].Results[j].Supported

\* What runChecks returns for a target and the four probes' outcomes
\* (check.go:166-458 as one function; web mode passes no override port).
runChecksResult(target, o10, o11, o2, o3) ==
    LET norm == normalizeURL(target)
        u    == urlParse(norm.url)
        port == resolvePort(u, <<>>)
        os   == <<o10, o11, o2, o3>>
        h2   == o2.kind = "resp" /\ ProtoMajor(o2.proto) = 2
        h3   == o3.kind = "resp" /\ ProtoMajor(o3.proto) = 3
        tls  == IF o2.kind = "resp" /\ o2.tls # "none" THEN tlsName(o2.tls) ELSE ""
        g    == computeMinimalGrade(h3, h2, tls)
    IN  IF norm.err # ""
        THEN [ZeroResult EXCEPT !.Target = target,
                                !.Results = <<errorSentinel("invalid URL: " \o norm.err)>>]
        ELSE [Target |-> target, URL |-> urlWithPort(u, port), Port |-> port,
              Results |-> <<classify10(o10), classify11(o11), classify2(o2), classify3(o3)>>,
              Score |-> g[1], Grade |-> g[2],
              ALPN |-> IF o2.kind = "resp" /\ o2.tls # "none" THEN o2.alpn ELSE "",
              TLSVersion |-> tls,
              Unresolved |-> \E k \in 1..4 : os[k].kind = "err" /\ isNotFound(os[k].err)]

\* The states of the network a web scan is tried under: a host that serves
\* HTTP/1.1 and HTTP/2 over TLS 1.3, and a name that does not resolve.
Networks == {"up", "nodns"}

\* Two more, for the scans that fail in other ways: a host that answers no
\* probe, and a host that serves HTTP/1.1 while one probe's lookup finds no
\* record.
ScanNetworks == Networks \cup {"down", "flaky"}

\* What the four probes of a target meet under each state of the network.
scanOutcomes(net) ==
    CASE net = "up" ->
           <<Fail(ErrRefused), Resp("HTTP/1.1", "none", ""),
             Resp("HTTP/2.0", "1.3", "h2"), Fail(ErrTimeout)>>
      [] net = "nodns" ->
           <<Fail(ErrNoSuchHost), Fail(ErrNoSuchHost), Fail(ErrNoSuchHost),
             Fail(ErrNoSuchHost)>>
      [] net = "down" ->
           <<Fail(ErrRefused), Fail(ErrTimeout), Fail(ErrTimeout), Fail(ErrTimeout)>>
      [] net = "flaky" ->
           <<Fail(ErrTimeout), Resp("HTTP/1.1", "none", ""), Fail(ErrTimeout),
             Fail(ErrNoSuchHost)>>

\* CheckHTTPVersionsJSON / CheckHTTPVersionsJSONMulti (web.go:391-396): one
\* CheckResult per target, in the order of the targets.
webScan(ts, net) ==
    LET os == scanOutcomes(net)
    IN  [i \in 1..Len(ts) |-> runChecksResult(ts[i], os[1], os[2], os[3], os[4])]

\* ---- resultCache

\* entry.ExpiresAt.Before(now)
expiredBeforeOrAt(entry, now) == entry.ExpiresAt <= now

expired(entry, now) == entry.ExpiresAt < now

\* resultCache.get, web.go:44-54, with now read at line 45.
cacheGetIgnoringExpiry(d, key, now) ==
    IF key \notin DOMAIN d
    THEN [ok |-> FALSE, results |-> <<>>, scannedAt |-> 0]
    ELSE [ok |-> TRUE, results |-> d[key].Results, scannedAt |-> d[key].ScannedAt]

cacheGetListedOnly(d, key, now) ==
    IF key \notin DOMAIN d \/ expired(d[key], now) \/ IndexOf(recentKeys, key) = 0
    THEN [ok |-> FALSE, results |-> <<>>, scannedAt |-> 0]
    ELSE [ok |-> TRUE, results |-> d[key].Results, scannedAt |-> d[key].ScannedAt]

cacheGet(d, key, now) ==
    IF key \notin DOMAIN d \/ expired(d[key], now)
    THEN [ok |-> FALSE, results |-> <<>>, scannedAt |-> 0]
    ELSE [ok |-> TRUE, results |-> d[key].Results, scannedAt |-> d[key].ScannedAt]

\* Lines 62-67: the sweep of expired entries.
sweepNothing(d, now) == d

sweep(d, now) ==
    LET keep == {k \in DOMAIN d : ~expired(d[k], now)}
    IN  [k \in keep |-> d[k]]

\* Lines 69-74: the entry written.
newEntryNoTTL(rs, includeInRecent, now) ==
    [Results |-> rs, ScannedAt |-> now, ExpiresAt |-> now, Hidden |-> ~includeInRecent]

newEntry(rs, includeInRecent, now) ==
    [Results |-> rs, ScannedAt |-> now, ExpiresAt |-> now + cacheTTL,
     Hidden |-> ~includeInRecent]

\* Lines 62-74: resultCache.set's effect on data.
setDataKeepExisting(d, key, rs, includeInRecent, now) ==
    LET swept == sweep(d, now)
    IN  [k \in (DOMAIN swept) \cup {key} |->
            IF k = key /\ key \notin DOMAIN swept
            THEN newEntry(rs, includeInRecent, now) ELSE swept[k]]

setData(d, key, rs, includeInRecent, now) ==
    LET swept == sweep(d, now)
    IN  [k \in (DOMAIN swept) \cup {key} |->
            IF k = key THEN newEntry(rs, includeInRecent, now) ELSE swept[k]]

\* Lines 80-85: remove the first occurrence of key.
removeKeyNever(keys, key) == keys

removeKey(keys, key) ==
    LET i == IndexOf(keys, key)
    IN  IF i = 0 THEN keys
        ELSE SubSeq(keys, 1, i - 1) \o SubSeq(keys, i + 1, Len(keys))

\* Lines 76-90: resultCache.set's effect on recentKeys.
setRecentNoDedup(keys, key, includeInRecent) ==
    IF ~includeInRecent THEN keys
    ELSE LET appended == Append(keys, key)
         IN  IF Len(appended) > maxRecentKeys
             THEN SubSeq(appended, Len(appended) - maxRecentKeys + 1, Len(appended))
             ELSE appended

setRecent(keys, key, includeInRecent) ==
    IF ~includeInRecent THEN keys
    ELSE LET appended == Append(removeKey(keys, key), key)
         IN  IF Len(appended) > maxRecentKeys
             THEN SubSeq(appended, Len(appended) - maxRecentKeys + 1, Len(appended))
             ELSE appended

\* Line 118: the entries recentSnapshots passes over.
skippedShowingHidden(d, key, now) == key \notin DOMAIN d \/ expired(d[key], now)

skipped(d, key, now) ==
    key \notin DOMAIN d \/ expired(d[key], now) \/ d[key].Hidden

\* Lines 113-136: the (key, index) pairs recentSnapshots turns into
\* snapshots, walking keys[i], keys[i-1], ... with acc collected so far.
RECURSIVE recentWalkWholeEntries(_, _, _, _, _, _)
recentWalkWholeEntries(d, keys, i, limit, now, acc) ==
    IF i < 1 \/ Len(acc) >= limit THEN acc
    ELSE IF skipped(d, keys[i], now)
         THEN recentWalkWholeEntries(d, keys, i - 1, limit, now, acc)
         ELSE recentWalkWholeEntries(d, keys, i - 1, limit, now,
                  acc \o [j \in 1..Len(d[keys[i]].Results) |-> [key |-> keys[i], idx |-> j]])

RECURSIVE recentWalk(_, _, _, _, _, _)
recentWalk(d, keys, i, limit, now, acc) ==
    IF i < 1 \/ Len(acc) >= limit THEN acc
    ELSE IF skipped(d, keys[i], now)
         THEN recentWalk(d, keys, i - 1, limit, now, acc)
         ELSE LET n    == Len(d[keys[i]].Results)
                  room == limit - Len(acc)
                  take == IF n < room THEN n ELSE room
              IN  recentWalk(d, keys, i - 1, limit, now,
                             acc \o [j \in 1..take |-> [key |-> keys[i], idx |-> j]])

recentSources(d, keys, limit, now) ==
    IF limit <= 0 THEN <<>> ELSE recentWalk(d, keys, Len(keys), limit, now, <<>>)

\* Lines 122-130: the snapshot of one CheckResult of an entry.
snapshotOf(entry, idx) ==
    LET cr == entry.Results[idx]
    IN  [Target |-> cr.Target, URL |-> cr.URL, Port |-> cr.Port, Results |-> cr.Results,
         ScannedAt |-> entry.ScannedAt, Score |-> cr.Score, Grade |-> cr.Grade]

\* resultCache.recentSnapshots, web.go:103-137, with now read at line 108.
recentSnapshots(d, keys, limit, now) ==
    LET src == recentSources(d, keys, limit, now)
    IN  [j \in 1..Len(src) |-> snapshotOf(d[src[j].key], src[j].idx)]

\* ---- handleScan, web.go:338-469

\* Concurrent invocations of handleScan.
Procs == {1, 2}

\* The hours one clock tick adds: with a 4 h TTL an entry is seen at ages
\* 0 and 2 (fresh), 4 (exactly the TTL) and 6 (past it).
TickHours == {2}

\* The `t` form values tried: two targets, the first in upper case after a
\* blank; the oldest key of a full MRU list; none; six different targets; six
\* parts of which two are different.
RawQueries ==
    { <<" ", "A", ".", "c", "o", ",", "b", ".", "c", "o">>,
      <<"h", "0", "1">>,
      <<>>,
      <<"a", ",", "b", ",", "c", ",", "d", ",", "e", ",", "f">>,
      <<"A", ".", "c", "o", ",", "b", ".", "c", "o", ",", "a", ".", "c", "o", ",",
        "B", ".", "C", "O", ",", " ", ",", "a", ".", "C", "o">> }

\* A `t` form value that is no hostname: "b c".
InvalidQuery == <<"b", " ", "c">>

\* All `t` form values the runs use.
FormValues == RawQueries \cup {InvalidQuery}

DigitChar(n) == <<"0", "1", "2", "3", "4", "5", "6", "7", "8", "9">>[n + 1]

\* The target of the i-th scan that filled the cache before the run.
PrefillTarget(i) == <<"h", DigitChar(i \div 10), DigitChar(i % 10)>>

\* The cache after n visible scans, of PrefillTarget(1), ..., PrefillTarget(n)
\* in this order, all at hour 0: what n calls of resultCache.set leave (the
\* keys differ and nothing has expired, so each call adds its entry and
\* appends its key).
prefill(n) ==
    [data |-> [k \in {cacheKey(<<PrefillTarget(i)>>) : i \in 1..n} |->
                 newEntry(webScan(<<k>>, "up"), TRUE, 0)],
     keys |-> [i \in 1..n |-> cacheKey(<<PrefillTarget(i)>>)]]

\* The pure functions of the handler over the form values tried: the targets
\* parsed from each, and for each target list its cache key and the results
\* of its scan.
parsedQuery == [raw \in FormValues |-> parseTargetsParam(raw)]

QueryTargets == {parsedQuery[raw] : raw \in FormValues}

keyOf == [ts \in QueryTargets |-> cacheKey(ts)]

scanOf == [ts \in QueryTargets, net \in ScanNetworks |-> webScan(ts, net)]

IdleReq ==
    [pc |-> "idle", targets |-> <<>>, hide |-> FALSE, now |-> 0, results |-> <<>>,
     usedCache |-> FALSE, scannedAt |-> 0, pageError |-> ""]

\* The server with the cache start, before any of the requests of the run.
InitWith(start) ==
    /\ IdleTime
    /\ IdleRace
    /\ IdleLock
    /\ IdleSlice
    /\ IdleSched
    /\ IdleCheck
    /\ IdleCall
    /\ clock = 0
    /\ data = start.data
    /\ recentKeys = start.keys
    /\ reqs = [p \in Procs |-> IdleReq]
    /\ probeRuns = 0
    /\ nreq = 0

\* newResultCache (web.go:38-42): the empty cache.
InitCache == InitWith(prefill(0))

\* A cache whose MRU list earlier scans have filled to its cap.
InitCacheFull == InitWith(prefill(maxRecentKeys))

\* fmt.Sprintf("Please provide between 1 and %d targets.", maxWebTargets)
TooManyTargets == "Please provide between 1 and 5 targets."

\* Lines 339-386 for the form value raw and the hide flag: with no target or
\* too many the request goes straight to the page with the recent scans, with
\* pageData.Error set for too many (the hide flag, line 377, is not read),
\* else it reads the clock for cache.get (line 45).
beginRequestNoLimit(raw, hide, now) ==
    LET ts == parsedQuery[raw]
    IN  IF Len(ts) = 0
        THEN [IdleReq EXCEPT !.pc = "respond"]
        ELSE [IdleReq EXCEPT !.pc = "get", !.targets = ts, !.hide = hide, !.now = now]

beginRequest(raw, hide, now) ==
    LET ts == parsedQuery[raw]
    IN  IF Len(ts) = 0
        THEN [IdleReq EXCEPT !.pc = "respond"]
        ELSE IF Len(ts) > maxWebTargets
        THEN [IdleReq EXCEPT !.pc = "respond", !.pageError = TooManyTargets]
        ELSE [IdleReq EXCEPT !.pc = "get", !.targets = ts, !.hide = hide, !.now = now]

Begin(p, raw, hide) ==
    /\ reqs[p].pc = "idle"
    /\ nreq < MaxRequests
    /\ nreq' = nreq + 1
    /\ reqs' = [reqs EXCEPT ![p] = beginRequest(raw, hide, clock)]
    /\ UNCHANGED <<raceVars, lockVars, timeVars, sliceVars, callVars, schedVars, checkVars, clock, data, recentKeys, probeRuns>>

\* Lines 385-389 with 47-53: the lookup under the read lock, with the clock
\* value r.now read before it. A hit is the response's results; a miss goes on
\* to scan.
handleLookupAlwaysMiss(r) == [r EXCEPT !.pc = "scan", !.now = 0]

handleLookup(r) ==
    LET got == cacheGet(data, keyOf[r.targets], r.now)
    IN  IF got.ok
        THEN [r EXCEPT !.pc = "respond", !.results = got.results, !.usedCache = TRUE,
                       !.scannedAt = got.scannedAt]
        ELSE [r EXCEPT !.pc = "scan", !.now = 0]

\* resultCache.get's effect on data (lines 47-53): the map is only read.
getDataTouching(d, key, now) ==
    IF cacheGet(d, key, now).ok
    THEN [d EXCEPT ![key].ExpiresAt = now + cacheTTL]
    ELSE d

getData(d, key, now) == d

GetLookup(p) ==
    /\ reqs[p].pc = "get"
    /\ reqs' = [reqs EXCEPT ![p] = handleLookup(reqs[p])]
    /\ data' = getData(data, keyOf[reqs[p].targets], reqs[p].now)
    /\ UNCHANGED <<raceVars, lockVars, timeVars, sliceVars, callVars, schedVars, checkVars, clock, recentKeys, probeRuns, nreq>>

\* Lines 391-397 and 57: the scan ends with its results, and cache.set reads
\* the clock.
ScanDone(p, net) ==
    /\ reqs[p].pc = "scan"
    /\ probeRuns' = probeRuns + 1
    /\ reqs' = [reqs EXCEPT ![p] =
                  [reqs[p] EXCEPT !.pc = "set", !.results = scanOf[reqs[p].targets, net],
                                  !.now = clock]]
    /\ UNCHANGED <<raceVars, lockVars, timeVars, sliceVars, callVars, schedVars, checkVars, clock, data, recentKeys, nreq>>

\* Line 402.
includeInRecent(r) == ~r.hide /\ hasSuccessfulResult(r.results)

\* Lines 59-90 under the write lock: sweep, write the entry, update the MRU
\* list.
SetLocked(p) ==
    /\ reqs[p].pc = "set"
    /\ data' = setData(data, keyOf[reqs[p].targets], reqs[p].results,
                       includeInRecent(reqs[p]), reqs[p].now)
    /\ recentKeys' = setRecent(recentKeys, keyOf[reqs[p].targets],
                               includeInRecent(reqs[p]))
    /\ reqs' = [reqs EXCEPT ![p].pc = "respond"]
    /\ UNCHANGED <<raceVars, lockVars, timeVars, sliceVars, callVars, schedVars, checkVars, clock, probeRuns, nreq>>

\* The page's recent scans (lines 349, 366, 415, 435, 453): recentSnapshots
\* under the read lock, with the clock value now it read at line 108.
pageRecent(now) == recentSnapshots(data, recentKeys, recentLimit, now)

\* Lines 406-469, and 349-352, 366-369 without targets: the response is the
\* request's results as JSON (json, after a lookup or a scan only), or a page
\* with them and pageRecent(now) for a now read since the step before; the
\* request is over.
Respond(p, json) ==
    /\ reqs[p].pc = "respond"
    /\ reqs' = [reqs EXCEPT ![p] = IdleReq]
    /\ UNCHANGED <<raceVars, lockVars, timeVars, sliceVars, callVars, schedVars, checkVars, clock, data, recentKeys, probeRuns, nreq>>

\* Time passes.
Tick(h) ==
    /\ clock < h * MaxTicks
    /\ clock' = clock + h
    /\ UNCHANGED <<raceVars, lockVars, timeVars, sliceVars, callVars, schedVars, checkVars, data, recentKeys, reqs, probeRuns, nreq>>

NextCache ==
    \/ \E p \in Procs, raw \in RawQueries, hide \in BOOLEAN : Begin(p, raw, hide)
    \/ \E p \in Procs : GetLookup(p)
    \/ \E p \in Procs, net \in Networks : ScanDone(p, net)
    \/ \E p \in Procs : SetLocked(p)
    \/ \E p \in Procs, json \in BOOLEAN : Respond(p, json)
    \/ \E h \in TickHours : Tick(h)

SpecCache == InitCache /\ [][NextCache]_vars

SpecCacheFull == InitCacheFull /\ [][NextCache]_vars

\* ---- the cache's contract

\* Request p's cache key.
KeyOfReq(p) == keyOf[reqs[p].targets]

\* The step in which request p's cache.get looks the key up; it is a hit when
\* the request goes on to respond.
GetStep(p) == reqs[p].pc = "get" /\ reqs'[p].pc # "get"

GetHit(p) == GetStep(p) /\ reqs'[p].pc = "respond"

\* The step in which request p's cache.set runs under the write lock.
SetStep(p) == reqs[p].pc = "set" /\ reqs'[p].pc = "respond"

\* C5: a get never returns an entry whose expiresAt is earlier than the time
\* the get read (line 45): every lookup that hits finds the key in storage
\* with expiresAt not before that time and returns that entry's results; an
\* entry still in storage past its expiry is a miss.
C5_GetNeverReturnsExpired ==
    [][\A p \in Procs :
        /\ GetHit(p) =>
            /\ KeyOfReq(p) \in DOMAIN data
            /\ ~(data[KeyOfReq(p)].ExpiresAt < reqs[p].now)
            /\ reqs'[p].results = data[KeyOfReq(p)].Results
        /\ (/\ GetStep(p)
            /\ KeyOfReq(p) \in DOMAIN data
            /\ data[KeyOfReq(p)].ExpiresAt < reqs[p].now) => reqs'[p].pc = "scan"]_vars

\* C5 witness: before any scan of the run has ended, so with nothing written
\* or swept, a get has missed on a key whose entry is still in storage, past
\* its expiry.
C5_Witness ==
    \E p \in Procs :
        /\ reqs[p].pc = "scan"
        /\ probeRuns = 0
        /\ KeyOfReq(p) \in DOMAIN data
        /\ data[KeyOfReq(p)].ExpiresAt < clock

\* C6 as stated: a get at time t hits, with the stored results and scannedAt,
\* if and only if an entry for the key exists and t - scannedAt is less than
\* the TTL; at exactly the TTL it misses.
C6_HitIffElapsedBelowTTL ==
    [][\A p \in Procs :
        GetStep(p) =>
            /\ GetHit(p) <=>
                /\ KeyOfReq(p) \in DOMAIN data
                /\ reqs[p].now - data[KeyOfReq(p)].ScannedAt < cacheTTL
            /\ ~GetHit(p) => reqs'[p].pc = "scan"]_vars

\* C6 amended: a get at time t hits, with the stored results and scannedAt, if
\* and only if an entry for the key exists and t - scannedAt is at most the
\* TTL (expiresAt is not before t); at exactly the TTL it still hits, and in
\* every other case it misses.
C6_HitIffElapsedAtMostTTL ==
    [][\A p \in Procs :
        GetStep(p) =>
            /\ GetHit(p) <=>
                /\ KeyOfReq(p) \in DOMAIN data
                /\ reqs[p].now - data[KeyOfReq(p)].ScannedAt <= cacheTTL
            /\ GetHit(p) =>
                /\ reqs'[p].results = data[KeyOfReq(p)].Results
                /\ reqs'[p].scannedAt = data[KeyOfReq(p)].ScannedAt
                /\ reqs'[p].usedCache
            /\ ~GetHit(p) => reqs'[p].pc = "scan"]_vars

\* C6 witness: a get that read the clock exactly the TTL after the entry's
\* scannedAt has hit.
C6_Witness ==
    \E p \in Procs :
        /\ reqs[p].pc = "respond"
        /\ reqs[p].usedCache
        /\ reqs[p].now - reqs[p].scannedAt = cacheTTL

\* C7: a handleScan invocation that looks up a key for which an earlier
\* invocation's entry is stored, within that entry's TTL window, runs no
\* probe: it goes from the lookup to the response without scanning, and its
\* results are exactly the stored ones.
C7_SecondScanServedFromCache ==
    [][\A p \in Procs :
        (/\ GetStep(p)
         /\ KeyOfReq(p) \in DOMAIN data
         /\ data[KeyOfReq(p)].ScannedAt <= reqs[p].now
         /\ reqs[p].now <= data[KeyOfReq(p)].ExpiresAt) =>
            /\ reqs'[p].pc = "respond"
            /\ reqs'[p].usedCache
            /\ reqs'[p].results = data[KeyOfReq(p)].Results
            /\ probeRuns' = probeRuns
            /\ data' = data]_vars

\* C7 witness: the second invocation for a key responds from the cache, with
\* the results the first one scanned and stored, after exactly one scan.
C7_Witness ==
    \E p \in Procs :
        /\ reqs[p].pc = "respond"
        /\ reqs[p].usedCache
        /\ nreq = 2
        /\ probeRuns = 1
        /\ KeyOfReq(p) \in DOMAIN data
        /\ reqs[p].results = data[KeyOfReq(p)].Results
        /\ reqs[p].results # <<>>

\* C8: every set sweeps: right after a set that read the clock as now,
\* storage holds no entry whose expiresAt is before now; and an entry leaves
\* storage only in a set's step, never in a get's or a recentSnapshots'.
C8_SetSweepsExpired ==
    [][/\ \A p \in Procs :
            SetStep(p) =>
                /\ \A k \in DOMAIN data' : ~(data'[k].ExpiresAt < reqs[p].now)
                /\ KeyOfReq(p) \in DOMAIN data'
                /\ \A k \in DOMAIN data :
                    k # KeyOfReq(p) /\ ~(data[k].ExpiresAt < reqs[p].now) =>
                        k \in DOMAIN data' /\ data'[k] = data[k]
       /\ (\E k \in DOMAIN data : k \notin DOMAIN data') => \E p \in Procs : SetStep(p)]_vars

\* C8 witness: a set that read the clock after the TTL of everything stored
\* has returned, and storage holds its entry alone.
C8_Witness ==
    \E p \in Procs :
        /\ reqs[p].pc = "respond"
        /\ ~reqs[p].usedCache
        /\ reqs[p].targets # <<>>
        /\ reqs[p].now > cacheTTL
        /\ DOMAIN data = {KeyOfReq(p)}

\* The last key of the MRU list, <<>> when it is empty.
LastKey(keys) == IF keys = <<>> THEN <<>> ELSE keys[Len(keys)]

\* C9: the MRU list never holds a key twice nor more than 32 keys; a set with
\* includeInRecent leaves its key last, and no other step changes the last
\* key; a key already in the list moves to the end and drops none, a new key
\* is appended, and on a list of 32 the oldest key is the one dropped.
C9_RecentIndex ==
    /\ [](/\ Cardinality(Range(recentKeys)) = Len(recentKeys)
          /\ Len(recentKeys) <= maxRecentKeys)
    /\ [][/\ \A p \in Procs :
               SetStep(p) /\ includeInRecent(reqs[p]) =>
                   /\ LastKey(recentKeys') = KeyOfReq(p)
                   /\ KeyOfReq(p) \in Range(recentKeys) =>
                       /\ Range(recentKeys') = Range(recentKeys)
                       /\ Len(recentKeys') = Len(recentKeys)
                   /\ KeyOfReq(p) \notin Range(recentKeys) =>
                       recentKeys' = IF Len(recentKeys) < maxRecentKeys
                                     THEN Append(recentKeys, KeyOfReq(p))
                                     ELSE Append(Tail(recentKeys), KeyOfReq(p))
          /\ (\A p \in Procs : ~(SetStep(p) /\ includeInRecent(reqs[p]))) =>
               LastKey(recentKeys') = LastKey(recentKeys)]_vars

\* C9 witness: a 33rd key has been added to a list of 32: it is last, the
\* list still has 32 keys, and the oldest one is gone.
C9_Witness ==
    /\ Len(recentKeys) = maxRecentKeys
    /\ \E p \in Procs :
        /\ reqs[p].pc = "respond"
        /\ reqs[p].targets # <<>>
        /\ LastKey(recentKeys) = KeyOfReq(p)
        /\ KeyOfReq(p) # keyOf[<<PrefillTarget(1)>>]
    /\ keyOf[<<PrefillTarget(1)>>] \notin Range(recentKeys)
    /\ recentKeys[1] = cacheKey(<<PrefillTarget(2)>>)

\* The limits recentSnapshots is tried with: none, one, the page's, and more
\* than the list can ever give.
Limits == {0, 1, recentLimit, maxRecentKeys * maxWebTargets}

\* C10: while an entry written by set(includeInRecent = false) is the entry
\* of its key, a get within its TTL returns its results, and recentSnapshots
\* returns no snapshot made from it, for every limit and every clock reading,
\* in the MRU list or not.
C10_HiddenNeverListed ==
    \A k \in DOMAIN data :
        data[k].Hidden =>
            \A now \in 0..clock :
                /\ (data[k].ScannedAt <= now /\ now - data[k].ScannedAt < cacheTTL) =>
                    /\ cacheGet(data, k, now).ok
                    /\ cacheGet(data, k, now).results = data[k].Results
                /\ \A limit \in Limits :
                    LET src == recentSources(data, recentKeys, limit, now)
                    IN  \A j \in 1..Len(src) : src[j].key # k

\* C10 witness: a hidden entry, within its TTL, of a key that an earlier
\* visible scan put in the MRU list.
C10_Witness ==
    \E k \in DOMAIN data :
        /\ data[k].Hidden
        /\ \E i \in 1..Len(recentKeys) : recentKeys[i] = k
        /\ data[k].ScannedAt <= clock
        /\ clock - data[k].ScannedAt < cacheTTL
        /\ \E j \in 1..Len(data[k].Results) : hasSuccessfulResult(<<data[k].Results[j]>>)

\* C20: a request whose de-duplicated target list has more than 5 targets
\* goes straight to its page: it runs no probe, storage and the MRU list are
\* as they were when its response is out, and its list's key is never in
\* either. A request with 1 to 5 targets looks its key up and is then served
\* the stored results or scanned.
C20_TargetLimit ==
    /\ [](\A raw \in RawQueries :
            Len(parsedQuery[raw]) > 5 =>
                /\ keyOf[parsedQuery[raw]] \notin DOMAIN data
                /\ \A i \in DOMAIN recentKeys : recentKeys[i] # keyOf[parsedQuery[raw]])
    /\ [][/\ \A p \in Procs, raw \in RawQueries, hide \in BOOLEAN :
               Begin(p, raw, hide) =>
                   /\ Len(parsedQuery[raw]) > 5 =>
                       /\ reqs'[p].pc = "respond"
                       /\ reqs'[p].pageError = TooManyTargets
                       /\ reqs'[p].targets = <<>> /\ reqs'[p].results = <<>>
                       /\ UNCHANGED <<data, recentKeys, probeRuns>>
                   /\ Len(parsedQuery[raw]) \in 1..5 =>
                       /\ reqs'[p].pc = "get"
                       /\ reqs'[p].targets = parsedQuery[raw]
                       /\ reqs'[p].pageError = ""
          /\ \A p \in Procs :
               (reqs[p].pageError # "" /\ reqs'[p] # reqs[p]) =>
                   /\ reqs'[p] = IdleReq
                   /\ UNCHANGED <<data, recentKeys, probeRuns>>
          /\ \A p \in Procs :
               (reqs[p].pc = "get" /\ reqs'[p] # reqs[p]) =>
                   \/ /\ reqs'[p].pc = "respond" /\ reqs'[p].usedCache
                      /\ reqs'[p].results = data[KeyOfReq(p)].Results
                      /\ probeRuns' = probeRuns
                   \/ reqs'[p].pc = "scan"
          /\ \A p \in Procs :
               (reqs[p].pc = "scan" /\ reqs'[p] # reqs[p]) =>
                   /\ reqs'[p].pc = "set"
                   /\ probeRuns' = probeRuns + 1
                   /\ Len(reqs'[p].results) = Len(reqs[p].targets)]_vars

\* C20 witness: a request with six targets is at its page while the cache
\* holds the scan of another request.
C20_Witness ==
    \E p \in Procs :
        /\ reqs[p].pc = "respond"
        /\ reqs[p].pageError = TooManyTargets
        /\ DOMAIN data # {}
        /\ recentKeys # <<>>
        /\ probeRuns = 1

\* ---- recentSnapshots

\* The limits recentSnapshots is walked with: negative, none, less than one
\* entry's CheckResults, less than two entries', and the page's.
WalkLimits == {-1, 0, 1, 2, recentLimit}

\* The clock values recentSnapshots can have read at line 108 when it gets
\* the read lock: the present one, or the one before the last tick.
ClockReadings == {clock} \cup {clock - h : h \in {t \in TickHours : t <= clock}}

\* The keys of the MRU list whose entry recentSnapshots can show at now:
\* stored, not expired, not hidden.
Listable(k, now) ==
    k \in DOMAIN data /\ ~(data[k].ExpiresAt < now) /\ ~data[k].Hidden

\* The place of key k in the MRU list (0 when it is not there).
PlaceOf(k) == IndexOf(recentKeys, k)

\* No key of the MRU list at a place strictly between a and b is listable.
NoneListableBetween(a, b, now) ==
    \A i \in (a + 1)..(b - 1) : ~Listable(recentKeys[i], now)

\* C11: whenever a request is about to respond, for every limit and clock
\* reading: recentSnapshots(limit) returns at most limit snapshots, none when
\* limit <= 0; each is made from a CheckResult of a listable key of the MRU
\* list; the first is the first CheckResult of the most recent listable key;
\* each next one is the next CheckResult of the same entry or, after the
\* entry's last, the first of the next listable key towards the oldest; and
\* the list stops short of limit only after the last CheckResult of the
\* oldest listable key, so the entry that crosses the limit is cut.
C11_RecentSnapshots ==
    (\E p \in Procs : reqs[p].pc = "respond") =>
    \A now \in ClockReadings, limit \in WalkLimits :
      \A src \in {recentSources(data, recentKeys, limit, now)},
         snaps \in {recentSnapshots(data, recentKeys, limit, now)} :
        LET n == Len(src)
            keysEnd == Len(recentKeys) + 1
        IN  /\ limit <= 0 => snaps = <<>>
            /\ limit > 0 => Len(snaps) <= limit
            /\ Len(snaps) = n
            /\ \A j \in 1..n :
                /\ PlaceOf(src[j].key) > 0
                /\ Listable(src[j].key, now)
                /\ src[j].idx \in 1..Len(data[src[j].key].Results)
                /\ snaps[j].Target = data[src[j].key].Results[src[j].idx].Target
                /\ snaps[j].Grade = data[src[j].key].Results[src[j].idx].Grade
                /\ snaps[j].Results = data[src[j].key].Results[src[j].idx].Results
                /\ snaps[j].ScannedAt = data[src[j].key].ScannedAt
                /\ j = 1 =>
                    /\ src[j].idx = 1
                    /\ NoneListableBetween(PlaceOf(src[j].key), keysEnd, now)
                /\ j > 1 =>
                    \/ /\ src[j].key = src[j - 1].key
                       /\ src[j].idx = src[j - 1].idx + 1
                    \/ /\ src[j].idx = 1
                       /\ src[j - 1].idx = Len(data[src[j - 1].key].Results)
                       /\ PlaceOf(src[j].key) < PlaceOf(src[j - 1].key)
                       /\ NoneListableBetween(PlaceOf(src[j].key),
                                              PlaceOf(src[j - 1].key), now)
            /\ (limit > 0 /\ n < limit) =>
                IF n = 0 THEN NoneListableBetween(0, keysEnd, now)
                ELSE /\ src[n].idx = Len(data[src[n].key].Results)
                     /\ NoneListableBetween(0, PlaceOf(src[n].key), now)

\* C11 witness: with limit 1 the walk passes over the most recent key, whose
\* entry has expired, and cuts the next entry, which has two CheckResults, to
\* its first.
C11_Witness ==
    /\ \E p \in Procs : reqs[p].pc = "respond"
    /\ Len(recentKeys) = 2
    /\ ~Listable(recentKeys[2], clock)
    /\ Listable(recentKeys[1], clock)
    /\ Len(data[recentKeys[1]].Results) = 2
    /\ recentSources(data, recentKeys, 1, clock) = <<[key |-> recentKeys[1], idx |-> 1]>>

\* ================================================= the cache key of a request
\* handleScan's way from the `t` form value to the cache key and the entry
\* (web.go:338-339, 380, 403), for two requests on an empty cache.

\* The `t` form values tried: "a,b", "b,a", "A,b", " a , b ", "a", "a,a",
\* "ab", "a,,b", "a b", "b", "a,b,c", "B, a".
KeyRaws ==
    { <<"a", ",", "b">>,
      <<"b", ",", "a">>,
      <<"A", ",", "b">>,
      <<" ", "a", " ", ",", " ", "b", " ">>,
      <<"a">>,
      <<"a", ",", "a">>,
      <<"a", "b">>,
      <<"a", ",", ",", "b">>,
      <<"a", " ", "b">>,
      <<"b">>,
      <<"a", ",", "b", ",", "c">>,
      <<"B", ",", " ", "a">> }

InitKey ==
    /\ IdleTime
    /\ IdleRace
    /\ IdleLock
    /\ IdleSlice
    /\ IdleSched
    /\ IdleCheck
    /\ IdleCache
    /\ \E raw1, raw2 \in KeyRaws : call = [fn |-> "cacheKey", raw1 |-> raw1, raw2 |-> raw2]
    /\ ret = NoCall

\* What the two requests come to: their targets (line 339), their keys (line
\* 380) and the storage after both have written their scan (line 403).
keysOfRequests(raw1, raw2) ==
    LET ts1 == parseTargetsParam(raw1)
        ts2 == parseTargetsParam(raw2)
    IN  [fn |-> "cacheKey", ts1 |-> ts1, ts2 |-> ts2,
         key1 |-> cacheKey(ts1), key2 |-> cacheKey(ts2),
         stored |-> setData(setData(prefill(0).data, cacheKey(ts1), webScan(ts1, "up"),
                                    TRUE, 0),
                            cacheKey(ts2), webScan(ts2, "up"), TRUE, 0)]

KeyCall ==
    /\ call.fn = "cacheKey"
    /\ ret = NoCall
    /\ ret' = keysOfRequests(call.raw1, call.raw2)
    /\ UNCHANGED <<raceVars, lockVars, timeVars, sliceVars, schedVars, checkVars, cacheVars, call>>

NextKey == KeyCall

SpecKey == InitKey /\ [][NextKey]_vars

\* The targets of a list, each lower-cased and trimmed.
Normalized(ts) == [i \in 1..Len(ts) |-> ToLower(TrimSpace(ts[i]))]

\* C12: the cache key is the comma-join of the request's targets, each
\* lower-cased and trimmed, in request order: split at its commas it gives
\* them back in that order; two requests have the same key iff their target
\* lists are equal element by element after lower-casing and trimming, and
\* with different keys they have separate cache entries.
C12_CacheKey ==
    ret # NoCall =>
        /\ Split(ret.key1, ",") = Normalized(ret.ts1)
        /\ Split(ret.key2, ",") = Normalized(ret.ts2)
        /\ (ret.key1 = ret.key2) <=> (Normalized(ret.ts1) = Normalized(ret.ts2))
        /\ ret.key1 # ret.key2 => DOMAIN ret.stored = {ret.key1, ret.key2}
        /\ ret.key1 = ret.key2 => DOMAIN ret.stored = {ret.key1}

\* C12 witness: the same two targets in the other order have another key and
\* an entry of their own.
C12_Witness ==
    /\ ret # NoCall
    /\ ret.ts1 = <<<<"a">>, <<"b">>>>
    /\ ret.ts2 = <<<<"b">>, <<"a">>>>
    /\ ret.key1 # ret.key2
    /\ Cardinality(DOMAIN ret.stored) = 2

\* ===================================================== the port of a target
\* runChecks up to the start of the probes (check.go:166-219), for one target
\* and override port.

\* The valid targets tried, each with the scheme and the port written in it:
\* "cloudflare.com", "a.co", "a.co:81", "http://a.co", "http://a.co:81/x", "https://a.co",
\* "https://a.co:8443", "1.2.3.4", "http://1.2.3.4:81", "[::1]:81", "[::1]", "http://a.co:".
PortCases ==
    { [target |-> <<"c", "l", "o", "u", "d", "f", "l", "a", "r", "e", ".", "c", "o", "m">>,
       scheme |-> <<"h", "t", "t", "p", "s">>, embedded |-> <<>>],
      [target |-> <<"a", ".", "c", "o">>,
       scheme |-> <<"h", "t", "t", "p", "s">>, embedded |-> <<>>],
      [target |-> <<"a", ".", "c", "o", ":", "8", "1">>,
       scheme |-> <<"h", "t", "t", "p", "s">>, embedded |-> <<"8", "1">>],
      [target |-> <<"h", "t", "t", "p", ":", "/", "/", "a", ".", "c", "o">>,
       scheme |-> <<"h", "t", "t", "p">>, embedded |-> <<>>],
      [target |-> <<"h", "t", "t", "p", ":", "/", "/", "a", ".", "c", "o", ":", "8", "1", "/", "x">>,
       scheme |-> <<"h", "t", "t", "p">>, embedded |-> <<"8", "1">>],
      [target |-> <<"h", "t", "t", "p", "s", ":", "/", "/", "a", ".", "c", "o">>,
       scheme |-> <<"h", "t", "t", "p", "s">>, embedded |-> <<>>],
      [target |-> <<"h", "t", "t", "p", "s", ":", "/", "/", "a", ".", "c", "o", ":", "8", "4", "4", "3">>,
       scheme |-> <<"h", "t", "t", "p", "s">>, embedded |-> <<"8", "4", "4", "3">>],
      [target |-> <<"1", ".", "2", ".", "3", ".", "4">>,
       scheme |-> <<"h", "t", "t", "p", "s">>, embedded |-> <<>>],
      [target |-> <<"h", "t", "t", "p", ":", "/", "/", "1", ".", "2", ".", "3", ".", "4", ":", "8", "1">>,
       scheme |-> <<"h", "t", "t", "p">>, embedded |-> <<"8", "1">>],
      [target |-> <<"[", ":", ":", "1", "]", ":", "8", "1">>,
       scheme |-> <<"h", "t", "t", "p", "s">>, embedded |-> <<"8", "1">>],
      [target |-> <<"[", ":", ":", "1", "]">>,
       scheme |-> <<"h", "t", "t", "p", "s">>, embedded |-> <<>>],
      [target |-> <<"h", "t", "t", "p", ":", "/", "/", "a", ".", "c", "o", ":">>,
       scheme |-> <<"h", "t", "t", "p">>, embedded |-> <<>>] }

\* The -port values tried: none, and four ports.
PortOverrides ==
    { <<>>, <<"8", "2">>, Port80, Port443, <<"8", "0", "8", "0">> }

InitPort ==
    /\ IdleTime
    /\ IdleRace
    /\ IdleLock
    /\ IdleSlice
    /\ IdleSched
    /\ IdleCheck
    /\ IdleCache
    /\ \E c \in PortCases, o \in PortOverrides :
        call = [fn |-> "runChecks", target |-> c.target, overridePort |-> o]
    /\ ret = NoCall

\* Lines 172-219: what runChecks has put in res when the probes start, or the
\* validation error.
resolveTarget(target, overridePort) ==
    LET norm == normalizeURL(target)
        u    == urlParse(norm.url)
        port == resolvePort(u, overridePort)
    IN  IF norm.err # "" THEN [fn |-> "runChecks", err |-> norm.err, Port |-> <<>>, URL |-> <<>>]
        ELSE IF u.err THEN [fn |-> "runChecks", err |-> "parse", Port |-> <<>>, URL |-> <<>>]
        ELSE [fn |-> "runChecks", err |-> "", Port |-> port, URL |-> urlWithPort(u, port)]

PortCall ==
    /\ call.fn = "runChecks"
    /\ ret = NoCall
    /\ ret' = resolveTarget(call.target, call.overridePort)
    /\ UNCHANGED <<raceVars, lockVars, timeVars, sliceVars, schedVars, checkVars, cacheVars, call>>

NextPort == PortCall

SpecPort == InitPort /\ [][NextPort]_vars

\* The case of the target of the call under way.
CaseOfCall == CHOOSE c \in PortCases : c.target = call.target

\* The host and port part of a URL of the given scheme: what follows
\* "scheme://" up to the next "/".
AuthorityOf(url, scheme) == Split(Tail0(url, Len(scheme) + 4), "/")[1]

\* C14: for every valid target the reported port is not empty and is the
\* override if there is one, else the port written in the target if there is
\* one, else 80 for http and 443 otherwise; and the reported URL has that
\* port after its host ("cloudflare.com" without override gives
\* https://cloudflare.com:443).
C14_PortPrecedence ==
    ret # NoCall =>
        LET c == CaseOfCall
            expected == IF call.overridePort # <<>> THEN call.overridePort
                        ELSE IF c.embedded # <<>> THEN c.embedded
                        ELSE IF c.scheme = <<"h", "t", "t", "p">> THEN <<"8", "0">>
                        ELSE <<"4", "4", "3">>
        IN  /\ ret.err = ""
            /\ ret.Port # <<>>
            /\ ret.Port = expected
            /\ HasPrefix(ret.URL, c.scheme \o <<":", "/", "/">>)
            /\ HasSuffix(AuthorityOf(ret.URL, c.scheme), <<":">> \o ret.Port)
            /\ (call.target = <<"c", "l", "o", "u", "d", "f", "l", "a", "r", "e", ".", "c", "o", "m">> /\ call.overridePort = <<>>) =>
                ret.URL = <<"h", "t", "t", "p", "s", ":", "/", "/", "c", "l", "o", "u", "d", "f", "l", "a", "r", "e", ".", "c", "o", "m", ":", "4", "4", "3">>

\* C14 witness: an override port has replaced the port written in the URL.
C14_Witness ==
    /\ ret # NoCall
    /\ call.overridePort = <<"8", "2">>
    /\ CaseOfCall.embedded = <<"8", "1">>
    /\ CaseOfCall.scheme = <<"h", "t", "t", "p">>
    /\ ret.Port = <<"8", "2">>

\* ---------------------------------------------------------------------------
\* workerCountForTargets (check.go:584-600), called once per run of
\* runChecksMulti, followed by the loop that starts the workers (497-506).

\* len(targets) of the call: none, one, the values around 4 * NumCPU for the
\* small machines and the values around the cap of 64. The function takes an
\* int, so -1 stands for the negative arguments.
WorkerCallTargets == -1..70

\* runtime.NumCPU(): 4 * NumCPU is below, at and above the cap of 64.
WorkerCallCPUs == {1, 2, 15, 16, 17, 32}

InitWorkers ==
    /\ IdleTime
    /\ IdleRace
    /\ IdleLock
    /\ IdleSlice
    /\ IdleSched
    /\ IdleCheck
    /\ IdleCache
    /\ \E n \in WorkerCallTargets, cpus \in WorkerCallCPUs :
         call = [fn |-> "workerCountForTargets", n |-> n, cpus |-> cpus]
    /\ ret = NoCall

\* The count the function returns and the workers the loop starts for it.
workersForTargets(n, cpus) ==
    [fn |-> "workerCountForTargets",
     count |-> workerCountForTargets(n, cpus),
     started |-> spawnWorkers(workerCountForTargets(n, cpus))]

WorkersCall ==
    /\ call.fn = "workerCountForTargets"
    /\ ret = NoCall
    /\ ret' = workersForTargets(call.n, call.cpus)
    /\ UNCHANGED <<raceVars, lockVars, timeVars, sliceVars, schedVars, checkVars, cacheVars, call>>

NextWorkers == WorkersCall

SpecWorkers == InitWorkers /\ [][NextWorkers]_vars

Smallest(S) == CHOOSE x \in S : \A y \in S : x <= y

Largest(S) == CHOOSE x \in S : \A y \in S : y <= x

\* C19: for n >= 1 targets and c >= 1 CPUs the worker count is
\* min(max(1, 4c), 64, n), which lies in 1..min(64, n), and that many workers
\* are started; for n <= 0 the count is 0 and no worker is started.
C19_WorkerCount ==
    ret # NoCall =>
        IF call.n >= 1
        THEN /\ ret.count = Smallest({Largest({1, 4 * call.cpus}), 64, call.n})
             /\ ret.count \in 1..Smallest({64, call.n})
             /\ Len(ret.started) = ret.count
        ELSE /\ ret.count = 0
             /\ ret.started = <<>>

\* C19 witness: a machine with more than 16 CPUs is given more than 64
\* targets and gets 64 workers.
C19_Witness ==
    /\ ret # NoCall
    /\ call.cpus * 4 > 64
    /\ call.n > 64
    /\ ret.count = 64
    /\ Len(ret.started) = 64

\* ---------------------------------------------------------------------------
\* normalizeURL (check.go:29-64) and the entry of runChecks (166-193) for
\* targets written as scheme, host, port and path.

\* "localhost" in three letter cases.
LocalhostHosts ==
    { <<"l", "o", "c", "a", "l", "h", "o", "s", "t">>,
      <<"L", "O", "C", "A", "L", "H", "O", "S", "T">>,
      <<"L", "o", "c", "a", "l", "H", "o", "s", "t">> }

\* Literal addresses as a URL holds them: "1.2.3.4", "255.255.255.255",
\* "[::1]", "[2001:db8::1]".
IPHosts ==
    { <<"1", ".", "2", ".", "3", ".", "4">>,
      <<"2", "5", "5", ".", "2", "5", "5", ".", "2", "5", "5", ".", "2", "5", "5">>,
      <<"[", ":", ":", "1", "]">>,
      <<"[", "2", "0", "0", "1", ":", "d", "b", "8", ":", ":", "1", "]">> }

\* Other hosts: "localhost.", "localhosts", "a.co", "256.1.1.1", "a_b.co", "[::g]".
OtherHosts ==
    { <<"l", "o", "c", "a", "l", "h", "o", "s", "t", ".">>,
      <<"l", "o", "c", "a", "l", "h", "o", "s", "t", "s">>,
      <<"a", ".", "c", "o">>,
      <<"2", "5", "6", ".", "1", ".", "1", ".", "1">>,
      <<"a", "_", "b", ".", "c", "o">>,
      <<"[", ":", ":", "g", "]">> }

NormSchemes == { <<>>, SchemeHTTP, SchemeHTTPS }

NormPorts == { <<>>, <<":", "8", "0", "8", "0">>, <<":">> }

NormPaths == { <<>>, <<"/", "x">> }

InitNorm ==
    /\ IdleTime
    /\ IdleRace
    /\ IdleLock
    /\ IdleSlice
    /\ IdleSched
    /\ IdleCheck
    /\ IdleCache
    /\ \E h \in LocalhostHosts \cup IPHosts \cup OtherHosts, sch \in NormSchemes,
          prt \in NormPorts, pth \in NormPaths :
         call = [fn |-> "normalizeURL", scheme |-> sch, host |-> h, port |-> prt,
                 path |-> pth]
    /\ ret = NoCall

\* The target string of a call.
RawOfCall == call.scheme \o call.host \o call.port \o call.path

\* Lines 166-193: runChecks normalizes its target first and returns the
\* sentinel, or goes on to the probes.
NormCall ==
    /\ call.fn = "normalizeURL"
    /\ ret = NoCall
    /\ ret' = [fn |-> "normalizeURL",
               norm |-> normalizeURL(RawOfCall),
               entry |-> runChecksEntry(RawOfCall, <<>>)]
    /\ UNCHANGED <<raceVars, lockVars, timeVars, sliceVars, schedVars, checkVars, cacheVars, call>>

NextNorm == NormCall

SpecNorm == InitNorm /\ [][NextNorm]_vars

Repeat(c, n) == [i \in 1..n |-> c]

\* Labels: "a", "A1", "a-b", "-a", "a-", "", "a_b", and 63 and 64 times "a".
HostLabels ==
    { <<"a">>, <<"A", "1">>, <<"a", "-", "b">>, <<"-", "a">>, <<"a", "-">>, <<>>,
      <<"a", "_", "b">>, Repeat("a", 63), Repeat("a", 64) }

\* Names of 251, 252, 253 and 254 characters: three labels of 63 and one of
\* 59 to 62.
LongNames ==
    { Repeat("a", 63) \o <<".">> \o Repeat("b", 63) \o <<".">> \o Repeat("c", 63)
        \o <<".">> \o Repeat("d", n) : n \in 59..62 }

\* The hosts tried: one label, two labels and the long names, each also with
\* a dot after it.
HostCases ==
    LET names == HostLabels \cup {a \o <<".">> \o b : a, b \in HostLabels} \cup LongNames
    IN  names \cup {n \o <<".">> : n \in names}

InitHost ==
    /\ IdleTime
    /\ IdleRace
    /\ IdleLock
    /\ IdleSlice
    /\ IdleSched
    /\ IdleCheck
    /\ IdleCache
    /\ \E h \in HostCases : call = [fn |-> "isValidHostname", host |-> h]
    /\ ret = NoCall

\* Lines 57-61 of normalizeURL: the host of the target goes through
\* isValidHostname when it is no IP address.
HostCall ==
    /\ call.fn = "isValidHostname"
    /\ ret = NoCall
    /\ ret' = [fn |-> "isValidHostname",
               ok |-> isValidHostname(call.host),
               err |-> normalizeURL(call.host).err]
    /\ UNCHANGED <<raceVars, lockVars, timeVars, sliceVars, schedVars, checkVars, cacheVars, call>>

NextHost == HostCall

SpecHost == InitHost /\ [][NextHost]_vars

\* name is a dot-separated list of labels, each of 1 to 63 letters, digits
\* and hyphens, none starting or ending with a hyphen.
WellFormedLabels(name) ==
    /\ name # <<>>
    /\ \A i \in 1..Len(name) : name[i] \in Letters \cup Digits \cup {"-", "."}
    /\ name[1] \notin {".", "-"}
    /\ name[Len(name)] \notin {".", "-"}
    /\ \A i \in 1..(Len(name) - 1) :
         <<name[i], name[i + 1]>> \notin {<<".", ".">>, <<".", "-">>, <<"-", ".">>}
    /\ \A i \in 1..(Len(name) - 63) : \E j \in i..(i + 63) : name[j] = "."

\* host without the one dot that may end it.
WithoutRootDot(host) ==
    IF host # <<>> /\ host[Len(host)] = "." THEN SubSeq(host, 1, Len(host) - 1) ELSE host

\* C22 as stated: a host is accepted iff it has at most 253 characters and
\* each of its dot-separated labels is non-empty, has at most 63 characters,
\* all letters, digits or hyphens, and no hyphen first or last.
C22_AcceptedIffLabelsValid ==
    ret # NoCall =>
        (ret.ok <=> (Len(call.host) <= 253 /\ WellFormedLabels(call.host)))

\* C22 amended: the same with one dot at the end of the host allowed: the
\* host has at most 253 characters, that dot included, and the labels of the
\* host without that dot are as stated. normalizeURL accepts the host as a
\* target under the same condition.
C22_AcceptedIffLabelsValidUpToRootDot ==
    ret # NoCall =>
        /\ ret.ok <=> (Len(call.host) <= 253 /\ WellFormedLabels(WithoutRootDot(call.host)))
        /\ ret.ok <=> (ret.err = "")

\* C22 witness: "a-b.A1." with its dot at the end has been accepted.
C22_Witness ==
    /\ ret # NoCall
    /\ call.host = <<"a", "-", "b", ".", "A", "1", ".">>
    /\ ret.ok
    /\ ret.err = ""


\* ---- one target's check with the probe goroutines followed statement by
\* statement (check.go:277-458), beside the ordered batch (check.go:487-516)

\* unresolvedMu.Lock() returns when no goroutine holds the mutex (line 287).
mutexFreeAlways == TRUE

mutexFree == mu = 0

\* errors.As(err, &dnsErr) && dnsErr != nil && dnsErr.IsNotFound (line 286).
entersMutex(o) == o.kind = "err" /\ isNotFound(o.err)

\* Probe i's request ends with outcome o: the probe fills in its local
\* VersionResult; the HTTP/2.0 probe sets tlsProto, alpn and hasH2 (lines
\* 380-399), the HTTP/3.0 probe sets hasH3 (line 435); on an error the probe is
\* inside markIfUnresolved, before the Lock when the name was not found.
StmtAnswer(i, o) ==
    /\ cpc = "probing" /\ probes[i] = "run"
    /\ plocal' = (i :> classifyOf(i, o)) @@ plocal
    /\ IF i = 3
       THEN /\ tlsProto' = recordTLS(o).tlsProto
            /\ alpn' = recordTLS(o).alpn
            /\ hasH2' = (hasH2 \/ (o.kind = "resp" /\ ProtoMajor(o.proto) = 2))
       ELSE UNCHANGED <<tlsProto, alpn, hasH2>>
    /\ hasH3' = IF i = 4 THEN (hasH3 \/ (o.kind = "resp" /\ ProtoMajor(o.proto) = 3))
                ELSE hasH3
    /\ probes' = [probes EXCEPT ![i] = IF entersMutex(o) THEN "lock" ELSE "store"]
    /\ UNCHANGED <<mu, lockVars, timeVars, sliceVars, callVars, schedVars, cacheVars, ctarget, coverride, cpc,
                   cresults, unresolved, res, overtaken>>

\* Line 287: unresolvedMu.Lock().
StmtLock(i) ==
    /\ cpc = "probing" /\ probes[i] = "lock"
    /\ mutexFree
    /\ mu' = i
    /\ probes' = [probes EXCEPT ![i] = "mark"]
    /\ UNCHANGED <<plocal, lockVars, timeVars, sliceVars, callVars, schedVars, cacheVars, ctarget, coverride, cpc,
                   cresults, hasH2, hasH3, tlsProto, alpn, unresolved, res, overtaken>>

\* Line 288: unresolved = true.
StmtMark(i) ==
    /\ cpc = "probing" /\ probes[i] = "mark"
    /\ unresolved' = TRUE
    /\ probes' = [probes EXCEPT ![i] = "unlock"]
    /\ UNCHANGED <<raceVars, lockVars, timeVars, sliceVars, callVars, schedVars, cacheVars, ctarget, coverride, cpc,
                   cresults, hasH2, hasH3, tlsProto, alpn, res, overtaken>>

\* Line 289: unresolvedMu.Unlock().
StmtUnlock(i) ==
    /\ cpc = "probing" /\ probes[i] = "unlock"
    /\ mu' = 0
    /\ probes' = [probes EXCEPT ![i] = "store"]
    /\ UNCHANGED <<plocal, lockVars, timeVars, sliceVars, callVars, schedVars, cacheVars, ctarget, coverride, cpc,
                   cresults, hasH2, hasH3, tlsProto, alpn, unresolved, res, overtaken>>

\* Lines 332, 365, 404, 441: results[i] = v.
StmtStore(i) ==
    /\ cpc = "probing" /\ probes[i] = "store"
    /\ cresults' = WriteSlot(cresults, i, plocal[i])
    /\ overtaken' = (overtaken \/ FinishesEarly(i))
    /\ probes' = [probes EXCEPT ![i] = "written"]
    /\ UNCHANGED <<raceVars, lockVars, timeVars, sliceVars, callVars, schedVars, cacheVars, ctarget, coverride, cpc,
                   hasH2, hasH3, tlsProto, alpn, unresolved, res>>

\* The ordered batch alone.
InitOrdered == InitSched /\ mode = "ordered"

\* One check of "a.co" without an override port, or one ordered batch.
InitStmt == InitTimed \/ InitOrdered

NextStmt ==
    \/ RunChecksStart
    \/ \E i \in 1..4 : \E o \in TimedOutcomes(i) : StmtAnswer(i, o)
    \/ \E i \in 1..4 : StmtLock(i)
    \/ \E i \in 1..4 : StmtMark(i)
    \/ \E i \in 1..4 : StmtUnlock(i)
    \/ \E i \in 1..4 : StmtStore(i)
    \/ \E i \in 1..4 : ProbeDone(i)
    \/ RunChecksJoin
    \/ MultiStart
    \/ \E w \in Workers : MultiFeed(w)
    \/ MultiCloseJobs
    \/ \E w \in Workers : MultiWorkerCheck(w)
    \/ \E w \in Workers : MultiWorkerExit(w)
    \/ MultiReturn

SpecStmt == InitStmt /\ [][NextStmt]_vars

\* Probe i is between unresolvedMu.Lock() and unresolvedMu.Unlock().
InsideMutex(i) == probes[i] \in {"mark", "unlock"}

\* Probe i alone took a step.
OnlyProbeMoved(i) ==
    /\ probes'[i] # probes[i]
    /\ \A j \in (1..4) \ {i} : probes'[j] = probes[j]

\* C30: inside one target's check no two goroutines touch the same variable
\* unordered. results[i] is written by probe i alone, once, from its own local
\* value; hasH2, tlsProto and alpn are written in a step of the HTTP/2.0 probe
\* only and hasH3 in a step of the HTTP/3.0 probe only; a probe that is about
\* to write unresolved holds unresolvedMu, which at most one probe holds; the
\* function reads all of them in the step that returns, which it takes only
\* when the four probes have called Done. In an ordered batch no two workers
\* check the same index at once, and results[idx] is written once, by the one
\* worker that received idx, before the function returns.
C30_RaceFreedom ==
    /\ [](cpc = "probing" =>
            \A i \in 1..4 :
                InsideMutex(i) =>
                    /\ mu = i
                    /\ \A j \in (1..4) \ {i} : ~InsideMutex(j))
    /\ [][cpc = "probing" =>
            /\ \A i \in 1..4 :
                 cresults'[i] # cresults[i] =>
                    /\ OnlyProbeMoved(i)
                    /\ probes[i] = "store" /\ probes'[i] = "written"
                    /\ cresults[i] = ZeroVersionResult
                    /\ cresults'[i] = plocal[i]
            /\ <<hasH2, tlsProto, alpn>>' # <<hasH2, tlsProto, alpn>> =>
                    OnlyProbeMoved(3) /\ probes[3] = "run"
            /\ hasH3' # hasH3 => OnlyProbeMoved(4) /\ probes[4] = "run"
            /\ unresolved' # unresolved =>
                    \E i \in 1..4 : OnlyProbeMoved(i) /\ probes[i] = "mark" /\ mu = i
            /\ res' # res =>
                    /\ AllProbesDone
                    /\ res'.Results = cresults /\ res'.Unresolved = unresolved
                    /\ res'.ALPN = alpn /\ res'.TLSVersion = tlsProto
                    /\ <<res'.Score, res'.Grade>> = computeMinimalGrade(hasH3, hasH2, tlsProto)]_vars
    /\ [](mode = "ordered" =>
            \A w, v \in Workers :
                (workers[w].pc = "check" /\ workers[v].pc = "check" /\ w # v)
                    => workers[w].idx # workers[v].idx)
    /\ [][mode = "ordered" /\ mainpc # "start" =>
            \A idx \in DOMAIN results :
                results'[idx] # results[idx] =>
                    /\ mainpc # "returned"
                    /\ results[idx] = ZeroCheckResult
                    /\ taken[idx] = 1
                    /\ \E w \in Workers :
                         /\ workers[w].pc = "check" /\ workers[w].idx = idx
                         /\ workers'[w].pc = "recv"
                         /\ \A v \in Workers \ {w} : workers'[v] = workers[v]]_vars

\* Two probes got "no such host": the HTTP/1.0 probe is inside the mutex about
\* to set unresolved while the HTTP/3.0 probe waits at Lock, and the HTTP/2.0
\* probe has already written its slot.
C30_Witness ==
    /\ cpc = "probing"
    /\ probes[1] = "mark" /\ mu = 1
    /\ probes[4] = "lock"
    /\ probes[3] = "written" /\ cresults[3].Supported
    /\ ~unresolved


\* ---- the cache with resultCache.mu followed statement by statement
\* (web.go:44-137 called from handleScan)

\* c.mu.RLock() returns when no writer holds the lock or waits for it
\* (sync.RWMutex: a Lock call that is waiting keeps new readers out).
noWriterAlways == TRUE

noWriter == cmu.writer = 0

\* c.mu.Lock() returns when the readers that were inside have left.
noReaders == cmu.readers = {}

\* The fields of a request outside a call of set.
plainReq(r) == [f \in DOMAIN IdleReq |-> r[f]]

\* Line 47.
GetRLock(p) ==
    /\ reqs[p].pc = "get"
    /\ noWriter
    /\ cmu' = [cmu EXCEPT !.readers = @ \cup {p}]
    /\ reqs' = [reqs EXCEPT ![p].pc = "get.read"]
    /\ UNCHANGED <<raceVars, timeVars, sliceVars, callVars, schedVars, checkVars, clock, data,
                   recentKeys, probeRuns, nreq>>

\* Line 48, with the outcome of lines 50-53 for the entry read.
GetRead(p) ==
    /\ reqs[p].pc = "get.read"
    /\ reqs' = [reqs EXCEPT ![p] = [handleLookup(reqs[p]) EXCEPT !.pc = "get.unlock"]]
    /\ UNCHANGED <<lockVars, raceVars, timeVars, sliceVars, callVars, schedVars, checkVars, clock, data,
                   recentKeys, probeRuns, nreq>>

\* Line 49, then lines 385-389: a hit is the response, a miss goes on to scan.
GetRUnlock(p) ==
    /\ reqs[p].pc = "get.unlock"
    /\ cmu' = [cmu EXCEPT !.readers = @ \ {p}]
    /\ reqs' = [reqs EXCEPT ![p].pc = IF reqs[p].usedCache THEN "respond" ELSE "scan"]
    /\ UNCHANGED <<raceVars, timeVars, sliceVars, callVars, schedVars, checkVars, clock, data,
                   recentKeys, probeRuns, nreq>>

\* Line 59, first half: Lock() shuts other writers and new readers out. The
\* request remembers data and recentKeys as they are (history).
SetLock(p) ==
    /\ reqs[p].pc = "set"
    /\ noWriter
    /\ cmu' = [cmu EXCEPT !.writer = p]
    /\ reqs' = [reqs EXCEPT ![p].pc = "set.wait"]
    /\ UNCHANGED <<raceVars, timeVars, sliceVars, callVars, schedVars, checkVars, clock, data,
                   recentKeys, probeRuns, nreq>>

\* Line 59, second half: Lock() returns.
SetAcquire(p) ==
    /\ reqs[p].pc = "set.wait"
    /\ noReaders
    /\ reqs' = [reqs EXCEPT ![p] =
                  [d0 |-> data, k0 |-> recentKeys] @@ [reqs[p] EXCEPT !.pc = "set.sweep"]]
    /\ UNCHANGED <<lockVars, raceVars, timeVars, sliceVars, callVars, schedVars, checkVars, clock, data,
                   recentKeys, probeRuns, nreq>>

\* Lines 63-67.
SetSweep(p) ==
    /\ reqs[p].pc = "set.sweep"
    /\ data' = sweep(data, reqs[p].now)
    /\ reqs' = [reqs EXCEPT ![p].pc = "set.write"]
    /\ UNCHANGED <<lockVars, raceVars, timeVars, sliceVars, callVars, schedVars, checkVars, clock,
                   recentKeys, probeRuns, nreq>>

\* Lines 69-74.
SetWrite(p) ==
    /\ reqs[p].pc = "set.write"
    /\ data' = [k \in (DOMAIN data) \cup {keyOf[reqs[p].targets]} |->
                  IF k = keyOf[reqs[p].targets]
                  THEN newEntry(reqs[p].results, includeInRecent(reqs[p]), reqs[p].now)
                  ELSE data[k]]
    /\ reqs' = [reqs EXCEPT ![p].pc = "set.mru"]
    /\ UNCHANGED <<lockVars, raceVars, timeVars, sliceVars, callVars, schedVars, checkVars, clock,
                   recentKeys, probeRuns, nreq>>

\* Lines 76-90.
SetMRU(p) ==
    /\ reqs[p].pc = "set.mru"
    /\ recentKeys' = setRecent(recentKeys, keyOf[reqs[p].targets], includeInRecent(reqs[p]))
    /\ reqs' = [reqs EXCEPT ![p].pc = "set.unlock"]
    /\ UNCHANGED <<lockVars, raceVars, timeVars, sliceVars, callVars, schedVars, checkVars, clock,
                   data, probeRuns, nreq>>

\* Line 60: the deferred Unlock.
SetUnlock(p) ==
    /\ reqs[p].pc = "set.unlock"
    /\ cmu' = [cmu EXCEPT !.writer = 0]
    /\ reqs' = [reqs EXCEPT ![p] = [plainReq(reqs[p]) EXCEPT !.pc = "respond"]]
    /\ UNCHANGED <<raceVars, timeVars, sliceVars, callVars, schedVars, checkVars, clock, data,
                   recentKeys, probeRuns, nreq>>

\* Lines 406-409: the response is the results as JSON; the request is over.
RespondJSON(p) ==
    /\ reqs[p].pc = "respond"
    /\ reqs[p].targets # <<>>
    /\ reqs' = [reqs EXCEPT ![p] = IdleReq]
    /\ UNCHANGED <<lockVars, raceVars, timeVars, sliceVars, callVars, schedVars, checkVars, clock, data,
                   recentKeys, probeRuns, nreq>>

\* Line 110, for the page's recentSnapshots call (lines 344, 361, 415, 435,
\* 453).
SnapRLock(p) ==
    /\ reqs[p].pc = "respond"
    /\ noWriter
    /\ cmu' = [cmu EXCEPT !.readers = @ \cup {p}]
    /\ reqs' = [reqs EXCEPT ![p].pc = "snap.read"]
    /\ UNCHANGED <<raceVars, timeVars, sliceVars, callVars, schedVars, checkVars, clock, data,
                   recentKeys, probeRuns, nreq>>

\* Lines 113-135: the walk over recentKeys and data.
SnapRead(p) ==
    /\ reqs[p].pc = "snap.read"
    /\ reqs' = [reqs EXCEPT ![p].pc = "snap.unlock"]
    /\ UNCHANGED <<lockVars, raceVars, timeVars, sliceVars, callVars, schedVars, checkVars, clock, data,
                   recentKeys, probeRuns, nreq>>

\* Line 111: the deferred RUnlock; the page is rendered and the request over.
SnapRUnlock(p) ==
    /\ reqs[p].pc = "snap.unlock"
    /\ cmu' = [cmu EXCEPT !.readers = @ \ {p}]
    /\ reqs' = [reqs EXCEPT ![p] = IdleReq]
    /\ UNCHANGED <<raceVars, timeVars, sliceVars, callVars, schedVars, checkVars, clock, data,
                   recentKeys, probeRuns, nreq>>

\* The `t` form value tried with the lock followed: two targets.
LockQueries == { <<" ", "A", ".", "c", "o", ",", "b", ".", "c", "o">> }

NextLock ==
    \/ \E p \in Procs, raw \in LockQueries, hide \in BOOLEAN : Begin(p, raw, hide)
    \/ \E p \in Procs : GetRLock(p)
    \/ \E p \in Procs : GetRead(p)
    \/ \E p \in Procs : GetRUnlock(p)
    \/ \E p \in Procs, net \in Networks : ScanDone(p, net)
    \/ \E p \in Procs : SetLock(p)
    \/ \E p \in Procs : SetAcquire(p)
    \/ \E p \in Procs : SetSweep(p)
    \/ \E p \in Procs : SetWrite(p)
    \/ \E p \in Procs : SetMRU(p)
    \/ \E p \in Procs : SetUnlock(p)
    \/ \E p \in Procs : RespondJSON(p)
    \/ \E p \in Procs : SnapRLock(p)
    \/ \E p \in Procs : SnapRead(p)
    \/ \E p \in Procs : SnapRUnlock(p)
    \/ \E h \in TickHours : Tick(h)

SpecLock == InitCache /\ [][NextLock]_vars


\* Request p is between RLock and RUnlock, in get or in recentSnapshots.
ReaderInside(p) == reqs[p].pc \in {"get.read", "get.unlock", "snap.read", "snap.unlock"}

\* Request p is between Lock and Unlock, in set.
WriterInside(p) == reqs[p].pc \in {"set.sweep", "set.write", "set.mru", "set.unlock"}

\* C33: the cache's lock discipline. While a set is between Lock and Unlock
\* no get, no recentSnapshots and no other set is inside the lock, so no
\* reader sees data or recentKeys between the sweep, the entry write and the
\* MRU update; data and recentKeys change only in steps of the one request
\* that holds the write lock, and when it unlocks they are what one undivided
\* set makes of the values found at Lock. Readers are not kept out by each
\* other: with a reader inside and no writer holding or waiting, another
\* request's RLock goes through.
C33_LockDiscipline ==
    /\ [](\A p \in Procs :
            /\ WriterInside(p) =>
                 /\ cmu.writer = p /\ cmu.readers = {}
                 /\ \A q \in Procs \ {p} : ~WriterInside(q) /\ ~ReaderInside(q)
            /\ ReaderInside(p) => p \in cmu.readers
            /\ reqs[p].pc = "set.unlock" =>
                 /\ data = setData(reqs[p].d0, KeyOfReq(p), reqs[p].results,
                                   includeInRecent(reqs[p]), reqs[p].now)
                 /\ recentKeys = setRecent(reqs[p].k0, KeyOfReq(p), includeInRecent(reqs[p])))
    /\ [][(data' # data \/ recentKeys' # recentKeys) =>
            \E p \in Procs :
                /\ WriterInside(p) /\ cmu.writer = p /\ cmu.readers = {}
                /\ \A q \in Procs \ {p} : reqs'[q] = reqs[q]]_vars
    /\ [](\A p, q \in Procs :
            (p # q /\ ReaderInside(q) /\ cmu.writer = 0) =>
                /\ reqs[p].pc = "get" => ENABLED GetRLock(p)
                /\ reqs[p].pc = "respond" => ENABLED SnapRLock(p))

\* C33 witness: request 1's set has called Lock and waits, because request 2
\* is inside recentSnapshots under the read lock; the cache already holds an
\* entry of an earlier set.
C33_Witness ==
    /\ reqs[1].pc = "set.wait" /\ cmu.writer = 1
    /\ reqs[2].pc = "snap.read" /\ cmu.readers = {2}
    /\ data # <<>>


\* ---- the cache's contract, continued (under SpecCache, where each call of
\* get, set and recentSnapshots is one step under the lock)

\* The entry request p's set writes.
EntryOfReq(p) == newEntry(reqs[p].results, includeInRecent(reqs[p]), reqs[p].now)

\* keys names no key twice.
NoDuplicates(keys) == \A i, j \in 1..Len(keys) : keys[i] = keys[j] => i = j

\* C34: the lookup and the write of one request are separate steps. A request
\* that missed goes on to scan and then to set whatever the cache holds by
\* then, also when another request has stored a fresh entry for the key in
\* between: its scan runs its own probes, and its set replaces the key's entry
\* by its own. The MRU list never names a key twice.
C34_OverlappingScans ==
    /\ [](NoDuplicates(recentKeys))
    /\ [][\A p \in Procs :
            /\ (reqs[p].pc = "scan" /\ reqs'[p] # reqs[p]) =>
                    reqs'[p].pc = "set" /\ probeRuns' = probeRuns + 1
            /\ (reqs[p].pc = "set" /\ reqs'[p] # reqs[p]) =>
                    /\ reqs'[p].pc = "respond"
                    /\ ~reqs'[p].usedCache
                    /\ data'[KeyOfReq(p)] = EntryOfReq(p)]_vars

\* C34 witness: both requests missed on the same key, each ran its own scan
\* (two scans in all) and each has called set, at different hours; the cache
\* holds request 2's entry, which differs from request 1's, and the MRU list
\* holds the key once.
C34_Witness ==
    /\ reqs[1].pc = "respond" /\ reqs[2].pc = "respond"
    /\ reqs[1].targets # <<>> /\ KeyOfReq(1) = KeyOfReq(2)
    /\ ~reqs[1].usedCache /\ ~reqs[2].usedCache
    /\ probeRuns = 2
    /\ includeInRecent(reqs[1]) /\ includeInRecent(reqs[2])
    /\ EntryOfReq(1) # EntryOfReq(2)
    /\ data = (KeyOfReq(2) :> EntryOfReq(2))
    /\ recentKeys = <<KeyOfReq(2)>>


\* C35: a request served from the cache leaves the cache as it is. In the
\* step of its lookup and in every later step of the request data and
\* recentKeys stay the same (the entry's results, scannedAt, expiresAt and
\* hidden flag, and the key's place in the MRU list); the response carries the
\* stored results and scannedAt; and the request never reaches set, where
\* alone its hide flag would be read.
C35_HitLeavesCacheUnchanged ==
    /\ [](\A p \in Procs : reqs[p].usedCache => reqs[p].pc = "respond")
    /\ [][\A p \in Procs :
            (reqs'[p] # reqs[p] /\ (GetHit(p) \/ reqs[p].usedCache)) =>
                /\ data' = data /\ recentKeys' = recentKeys
                /\ GetHit(p) =>
                     /\ reqs'[p].results = data[KeyOfReq(p)].Results
                     /\ reqs'[p].scannedAt = data[KeyOfReq(p)].ScannedAt
                     /\ reqs'[p].hide = reqs[p].hide]_vars

\* C35 witness: a request that asked to hide its scan was served, two or more
\* hours after the scan, from an entry that is not hidden and is listed in the
\* MRU list; the entry still has its first expiry time.
C35_Witness ==
    \E p \in Procs :
        /\ reqs[p].pc = "respond" /\ reqs[p].usedCache /\ reqs[p].hide
        /\ reqs[p].now > reqs[p].scannedAt
        /\ KeyOfReq(p) \in DOMAIN data
        /\ ~data[KeyOfReq(p)].Hidden
        /\ data[KeyOfReq(p)].ScannedAt = reqs[p].scannedAt
        /\ data[KeyOfReq(p)].ExpiresAt = reqs[p].scannedAt + cacheTTL
        /\ IndexOf(recentKeys, KeyOfReq(p)) > 0


\* The keys of S in the order they have in keys.
Restricted(keys, S) == SelectSeq(keys, LAMBDA k : k \in S)

\* C36: what a set does to the MRU list. Without includeInRecent the list
\* stays exactly as it is, also when it names the key. With includeInRecent
\* the key ends up last and only there, no other key is added, the other keys
\* keep their relative order, and a key is dropped only as the oldest of a
\* full list to which a new key is added. Which entries the sweep of the same
\* set removes from storage has no part in it: a swept key stays in the list,
\* and no step but such a set changes the list.
C36_SetAndRecentKeys ==
    [][/\ \A p \in Procs :
            SetStep(p) =>
                LET key  == KeyOfReq(p)
                    old  == Range(recentKeys)
                    new  == Range(recentKeys')
                    rest == new \ {key}
                IN  IF ~includeInRecent(reqs[p])
                    THEN recentKeys' = recentKeys
                    ELSE /\ recentKeys'[Len(recentKeys')] = key
                         /\ \A i \in 1..(Len(recentKeys') - 1) : recentKeys'[i] # key
                         /\ new \subseteq old \cup {key}
                         /\ SubSeq(recentKeys', 1, Len(recentKeys') - 1)
                               = Restricted(recentKeys, rest)
                         /\ \A d \in old \ new :
                               /\ Len(recentKeys) = maxRecentKeys
                               /\ key \notin old
                               /\ d = recentKeys[1]
       /\ recentKeys' # recentKeys =>
            \E p \in Procs : SetStep(p) /\ includeInRecent(reqs[p])]_vars

\* C36 witness: a set without includeInRecent, for a key the full MRU list
\* names, ran when everything stored had expired: the sweep emptied storage,
\* the set stored its own hidden entry, and the list still names all 32 keys,
\* 31 of them with no stored entry.
C36_Witness ==
    \E p \in Procs :
        /\ reqs[p].pc = "respond" /\ ~reqs[p].usedCache /\ reqs[p].targets # <<>>
        /\ ~includeInRecent(reqs[p])
        /\ KeyOfReq(p) \in Range(recentKeys)
        /\ DOMAIN data = {KeyOfReq(p)} /\ data[KeyOfReq(p)].Hidden
        /\ recentKeys = prefill(maxRecentKeys).keys


\* C37: a lookup is decided by the stored entry and the clock alone. Whether
\* the MRU list names the key or not, get hits exactly when storage holds an
\* entry for the key whose expiresAt is not before the time get read, and
\* returns that entry's results and scannedAt; so a key the 32-key cap has
\* dropped from the list, or a key never put on it, is served until it
\* expires.
C37_LookupIgnoresRecentKeys ==
    [][\A p \in Procs :
          GetStep(p) =>
              LET key == KeyOfReq(p)
                  has == key \in DOMAIN data /\ ~(data[key].ExpiresAt < reqs[p].now)
              IN  /\ GetHit(p) <=> has
                  /\ GetHit(p) =>
                       /\ reqs'[p].results = data[key].Results
                       /\ reqs'[p].scannedAt = data[key].ScannedAt]_vars

\* C37 witness: a request has been served from the cache for the key that a
\* newer key pushed out of the full MRU list.
C37_Witness ==
    \E p \in Procs :
        /\ reqs[p].pc = "respond" /\ reqs[p].usedCache
        /\ KeyOfReq(p) = keyOf[<<PrefillTarget(1)>>]
        /\ KeyOfReq(p) \notin Range(recentKeys)
        /\ Len(recentKeys) = maxRecentKeys


\* C38: every stored entry has expiresAt = scannedAt + 4 h. A set puts a whole
\* new entry in the key's place, whether the key had none, an expired or a
\* live one: the results it was given, the time it read as scannedAt, that
\* time plus 4 h as expiresAt, and its own hidden flag; and a get that hits
\* returns the results and the scannedAt of the one entry stored.
C38_EntryReplacedWhole ==
    /\ [](\A k \in DOMAIN data : data[k].ExpiresAt = data[k].ScannedAt + cacheTTL)
    /\ [][\A p \in Procs :
            /\ SetStep(p) =>
                 data'[KeyOfReq(p)] =
                    [Results |-> reqs[p].results, ScannedAt |-> reqs[p].now,
                     ExpiresAt |-> reqs[p].now + 4, Hidden |-> ~includeInRecent(reqs[p])]
            /\ GetHit(p) =>
                 \E e \in {data[KeyOfReq(p)]} :
                     reqs'[p].results = e.Results /\ reqs'[p].scannedAt = e.ScannedAt]_vars

\* C38 witness: the entry stored at hour 0 for the oldest key expired, a
\* re-scan that found no DNS record replaced it, and a later request was
\* served the new results with the new scannedAt.
C38_Witness ==
    \E p \in Procs :
        /\ reqs[p].pc = "respond" /\ reqs[p].usedCache
        /\ KeyOfReq(p) = keyOf[<<PrefillTarget(1)>>]
        /\ reqs[p].scannedAt > cacheTTL
        /\ reqs[p].results = scanOf[reqs[p].targets, "nodns"]
        /\ reqs[p].results # prefill(1).data[KeyOfReq(p)].Results
        /\ data[KeyOfReq(p)].ExpiresAt = reqs[p].scannedAt + cacheTTL


\* ---- handleScan over scans that succeed and scans that fail in every way

\* The `t` form values tried: one that is no hostname, and two targets.
ScanQueries == { InvalidQuery, <<" ", "A", ".", "c", "o", ",", "b", ".", "c", "o">> }

NextScan ==
    \/ \E p \in Procs, raw \in ScanQueries, hide \in BOOLEAN : Begin(p, raw, hide)
    \/ \E p \in Procs : GetLookup(p)
    \/ \E p \in Procs, net \in ScanNetworks : ScanDone(p, net)
    \/ \E p \in Procs : SetLocked(p)
    \/ \E p \in Procs, json \in BOOLEAN : Respond(p, json)
    \/ \E h \in TickHours : Tick(h)

SpecScan == InitCache /\ [][NextScan]_vars

\* C39: the set that ends a fresh scan stores the results where get finds
\* them, whatever the scan's outcome, and a recentSnapshots call at the same
\* instant shows these results exactly when the request did not ask to hide
\* them and some CheckResult that is not Unresolved has a Supported version.
\* A scan of an invalid host, one with no DNS, one whose probes all failed and
\* one whose only supported versions sit in Unresolved results are cached and
\* not shown.
C39_RecentIffSuccessful ==
    [][\A p \in Procs :
          SetStep(p) =>
              LET key    == KeyOfReq(p)
                  rs     == reqs[p].results
                  now    == reqs[p].now
                  wanted == /\ ~reqs[p].hide
                            /\ \E i \in 1..Len(rs) :
                                  /\ ~rs[i].Unresolved
                                  /\ \E j \in 1..Len(rs[i].Results) :
                                        rs[i].Results[j].Supported
                  found  == cacheGet(data', key, now)
                  snaps  == recentSnapshots(data', recentKeys', recentLimit, now)
                  shown  == \E j \in 1..Len(snaps) :
                               /\ snaps[j].Target = rs[1].Target
                               /\ snaps[j].Results = rs[1].Results
                               /\ snaps[j].ScannedAt = now
              IN  /\ found.ok
                  /\ found.results = rs
                  /\ shown <=> wanted
                  /\ wanted => /\ snaps[1].Target = rs[1].Target
                               /\ recentKeys'[Len(recentKeys')] = key]_vars

\* A request that did not ask to hide its scan has stored results in which a
\* version is supported, but only in Unresolved results: the entry is in the
\* cache, hidden, and its key is not in the MRU list.
C39_Witness ==
    \E p \in Procs :
        /\ reqs[p].pc = "respond"
        /\ ~reqs[p].usedCache
        /\ ~reqs[p].hide
        /\ \E i \in 1..Len(reqs[p].results) :
              /\ reqs[p].results[i].Unresolved
              /\ \E j \in 1..Len(reqs[p].results[i].Results) :
                    reqs[p].results[i].Results[j].Supported
        /\ KeyOfReq(p) \in DOMAIN data
        /\ data[KeyOfReq(p)].Results = reqs[p].results
        /\ data[KeyOfReq(p)].Hidden
        /\ KeyOfReq(p) \notin Range(recentKeys)

\* ---- the results slices as references (web.go:44-54, 56-91, 385-403)
\*
\* A Go slice is a reference to a backing array.  handleScan's `results` is one,
\* cacheEntry.Results is one, and what get returns is one.  These runs follow
\* which array each of them refers to, next to the values kept in `reqs` and
\* `data`.

\* A scan returns a newly made slice; web.go:391-396
allocateInPlace(h, rs) == IF h = <<>> THEN <<rs>> ELSE [h EXCEPT ![Len(h)] = rs]

allocate(h, rs) == Append(h, rs)

InitSlice ==
    /\ IdleTime
    /\ IdleRace
    /\ IdleLock
    /\ IdleSched
    /\ IdleCheck
    /\ IdleCall
    /\ clock = 0
    /\ data = prefill(0).data
    /\ recentKeys = prefill(0).keys
    /\ reqs = [p \in Procs |-> IdleReq]
    /\ probeRuns = 0
    /\ nreq = 0
    /\ slices = <<>>
    /\ reqSlice = [p \in Procs |-> 0]
    /\ entrySlice = [k \in DOMAIN prefill(0).data |-> 0]

\* cache.get and the branch on its result, web.go:385-388: on a hit `results`
\* is the slice get returned, which is entry.Results itself (web.go:48, 53).
GetShared(p) ==
    /\ reqs[p].pc = "get"
    /\ reqs' = [reqs EXCEPT ![p] = handleLookup(reqs[p])]
    /\ data' = getData(data, KeyOfReq(p), reqs[p].now)
    /\ reqSlice' = [reqSlice EXCEPT ![p] =
                      IF cacheGet(data, KeyOfReq(p), reqs[p].now).ok
                      THEN entrySlice[KeyOfReq(p)] ELSE 0]
    /\ UNCHANGED <<raceVars, lockVars, timeVars, callVars, schedVars, checkVars, clock,
                   recentKeys, probeRuns, nreq, slices, entrySlice>>

\* The scan, web.go:389-396: `results` is the slice the scan made.
ScanAllocated(p, net) ==
    /\ reqs[p].pc = "scan"
    /\ probeRuns' = probeRuns + 1
    /\ reqs' = [reqs EXCEPT ![p] =
                  [reqs[p] EXCEPT !.pc = "set", !.results = scanOf[reqs[p].targets, net],
                                  !.now = clock]]
    /\ slices' = allocate(slices, scanOf[reqs[p].targets, net])
    /\ reqSlice' = [reqSlice EXCEPT ![p] = Len(slices')]
    /\ UNCHANGED <<raceVars, lockVars, timeVars, callVars, schedVars, checkVars, clock,
                   data, recentKeys, nreq, entrySlice>>

\* cache.set, web.go:56-91: the entry's Results is the slice passed in
\* (`Results: results`, web.go:70).
SetShared(p) ==
    /\ reqs[p].pc = "set"
    /\ data' = setData(data, KeyOfReq(p), reqs[p].results, includeInRecent(reqs[p]),
                       reqs[p].now)
    /\ recentKeys' = setRecent(recentKeys, KeyOfReq(p), includeInRecent(reqs[p]))
    /\ entrySlice' = [k \in DOMAIN data' |->
                        IF k = KeyOfReq(p) THEN reqSlice[p] ELSE entrySlice[k]]
    /\ reqs' = [reqs EXCEPT ![p].pc = "respond"]
    /\ UNCHANGED <<raceVars, lockVars, timeVars, callVars, schedVars, checkVars, clock,
                   probeRuns, nreq, slices, reqSlice>>

\* The response, web.go:406-468: renderJSON and renderHTML read `results`;
\* the handler returns and its `results` is gone.
RespondShared(p, json) ==
    /\ reqs[p].pc = "respond"
    /\ reqs' = [reqs EXCEPT ![p] = IdleReq]
    /\ reqSlice' = [reqSlice EXCEPT ![p] = 0]
    /\ UNCHANGED <<raceVars, lockVars, timeVars, callVars, schedVars, checkVars, clock,
                   data, recentKeys, probeRuns, nreq, slices, entrySlice>>

NextSlice ==
    \/ \E p \in Procs, raw \in ScanQueries, hide \in BOOLEAN : Begin(p, raw, hide)
    \/ \E p \in Procs : GetShared(p)
    \/ \E p \in Procs, net \in Networks : ScanAllocated(p, net)
    \/ \E p \in Procs : SetShared(p)
    \/ \E p \in Procs, json \in BOOLEAN : RespondShared(p, json)
    \/ \E h \in TickHours : Tick(h)

SpecSlice == InitSlice /\ [][NextSlice]_vars

\* The array a set step stores and the array a hit returns.
SetSharesArray(p) == SetStep(p) => entrySlice'[KeyOfReq(p)] = reqSlice[p]

HitSharesArray(p) == GetHit(p) => reqSlice'[p] = entrySlice[KeyOfReq(p)]

\* No step writes to an array that exists.
ArraysKept == \A r \in DOMAIN slices : r \in DOMAIN slices' /\ slices'[r] = slices[r]

\* C40, amended: the cache stores no copy.  set keeps the very slice it was
\* passed and get returns the very slice the entry holds, so the caller, the
\* entry and every request served from it share one backing array.  What the
\* entry holds stays what was set all the same, because no step of the program
\* writes to a results array once the scan has made it: read through its
\* reference, every entry's Results is at all times the value that was set.
C40_SharedButNeverWritten ==
    [][/\ \A p \in Procs : SetSharesArray(p) /\ HitSharesArray(p)
       /\ ArraysKept
       /\ \A k \in DOMAIN data' :
             /\ entrySlice'[k] \in DOMAIN slices'
             /\ slices'[entrySlice'[k]] = data'[k].Results
       /\ \A p \in Procs :
             reqSlice'[p] # 0 => slices'[reqSlice'[p]] = reqs'[p].results]_vars

\* The request that scanned, a request served from the cache and the entry
\* all refer to one array.
C40_Witness ==
    \E p, q \in Procs :
        /\ p # q
        /\ reqs[p].pc = "respond" /\ ~reqs[p].usedCache
        /\ reqs[q].pc = "respond" /\ reqs[q].usedCache
        /\ KeyOfReq(p) \in DOMAIN data
        /\ reqSlice[p] # 0
        /\ reqSlice[p] = entrySlice[KeyOfReq(p)]
        /\ reqSlice[q] = reqSlice[p]

\* C40 as stated: the cache stores copies, so the array an entry holds is
\* neither the one passed to set nor the one a hit returns, and no stored
\* array is written.
C40_StoresCopies ==
    [][/\ \A p \in Procs :
             /\ SetStep(p) => entrySlice'[KeyOfReq(p)] # reqSlice[p]
             /\ GetHit(p) => reqSlice'[p] # entrySlice[KeyOfReq(p)]
       /\ ArraysKept]_vars

====
